---- MODULE Spec2Model ----
(***************************************************************************)
(* The upvote bot (event watcher, reconciliation, dispatcher, config cache *)
(* and heartbeat tick) as a state machine.  The bot is one Node.js process: *)
(* a callback runs to completion until it reaches an await on network I/O,  *)
(* and only then may another callback (a delivered onLogs batch, a timer    *)
(* tick, a signal handler) run.  `running` names the callback that holds    *)
(* the thread; an action of a callback needs `running` to be that callback, *)
(* or to be "none" when the callback is started or resumed by the event     *)
(* loop.                                                                    *)
(***************************************************************************)
EXTENDS Integers, Sequences, FiniteSets

\* ------------------------------------------------------------------ bounds
MaxDeliveries == 2      \* onLogs batches delivered
MaxBatchLen == 2        \* logs in one delivered batch
MaxTicks == 1           \* timer ticks fired
MaxRestarts == 1        \* restarts of the process
MaxClock == 1           \* advances of the wall clock
MaxQueue == 1           \* NFTs ever deposited into the dispenser's queue
MaxFaults == 1          \* failed I/O calls (remote reads, simulations, file writes)
MaxSets == 1            \* setUpvotesRequired calls by the dispenser's owner
TotalMessages == 7      \* the app's message count on the ledger (the tip)

\* ------------------------------------------------------- program constants
REQUIRED_UPVOTES == 420
POLL_MS == 15000
CACHE_TTL_MS == 60 * 1000
StateCap == 500
HEARTBEAT_INTERVAL == 10
DefaultUpvotesRequired == 420

\* -------------------------------------------------------------- conversions
RECURSIVE toString(_)
\* BigInt/Number .toString(): the decimal digits, most significant first
toString(n) == IF n < 10 THEN <<n>> ELSE Append(toString(n \div 10), n % 10)

RECURSIVE BigInt(_)
\* BigInt(string) of a decimal string
BigInt(s) == IF Len(s) = 0 THEN 0
             ELSE 10 * BigInt(SubSeq(s, 1, Len(s) - 1)) + s[Len(s)]

toLowerChar(c) ==
    CASE c = "A" -> "a" [] c = "B" -> "b" [] c = "C" -> "c" [] c = "D" -> "d"
      [] OTHER -> c

\* String.prototype.toLowerCase on an address (a sequence of characters)
toLowerCase(s) == [i \in DOMAIN s |-> toLowerChar(s[i])]

\* the checksummed (mixed-case) tracked token address produced by getAddress
NORMALIZED_TRACKED_TOKEN_ADDRESS == <<"A", "b">>

Max(a, b) == IF a > b THEN a ELSE b

\* ------------------------------------------------------------------ events
Users == {"U1", "U2"}

Log(tx, idx, user, token, n, block) ==
    [transactionHash |-> tx, logIndex |-> idx, user |-> user, token |-> token,
     numUpvotes |-> n, blockNumber |-> block]

\* The Upvoted logs the subscription can deliver.  Log 500:0 is an event an
\* earlier incarnation handled (it is the newest key of a full state file).
Logs == { Log(500, 0, "U1", <<"a", "b">>, 420, 10),
          Log(501, 0, "U1", <<"A", "b">>, 420, 12),
          Log(501, 1, "U2", <<"A", "b">>, 419, 12),
          Log(502, 0, "U2", <<"C", "d">>, 420, 11) }

RECURSIVE SeqsUpTo(_, _)
SeqsUpTo(S, n) ==
    IF n = 0 THEN {<<>>}
    ELSE LET shorter == SeqsUpTo(S, n - 1)
         IN  shorter \cup {Append(s, x) : s \in shorter, x \in S}

Batches == SeqsUpTo(Logs, MaxBatchLen) \ {<<>>}

\* `${log.transactionHash}:${log.logIndex}`
LogId(log) == <<log.transactionHash, log.logIndex>>

NoKey == <<0, 0>>

\* ------------------------------------------------------------------- state
VARIABLES
    \* the bot's module-level state (part_003 lines 201-206, 631)
    processedLogIds,     \* a JS Set: its elements in insertion order
    lastProcessedBlock,
    configCache,
    heartbeatCount,
    \* the callbacks in progress
    handlers,            \* onLogs invocations: slot -> frame
    ticks,               \* tick invocations: slot -> frame
    running,             \* the callback holding the thread, or "none"
    \* the process
    phase,               \* "up" or "exited"
    exitCode,
    runs,                \* process incarnations started so far
    \* the files
    stateFile,           \* net_state.json
    auditLog,            \* the daily logs/YYYY-MM-DD.jsonl entries, in order
    dispenserLog,        \* logs/dispenser-actions.jsonl entries, in order
    \* the environment
    now,                 \* Date.now()
    clock,               \* clock advances so far
    queuedNFTs,          \* the dispenser contract's queue
    upvotesRequired,     \* the dispenser contract's threshold
    userUpvotes,         \* the dispenser contract's per-user votes
    pending,             \* submitted addUpvotes transactions not yet mined
    nonce,               \* transactions the bot's account has submitted
    deposited,           \* NFTs deposited so far
    delivered,           \* onLogs batches delivered so far
    fired,               \* timer ticks fired so far
    faults,              \* failed I/O calls so far
    sets,                \* setUpvotesRequired calls so far
    scenario,            \* what the environment does at most in this behaviour
    \* history
    dispatched,          \* key -> addUpvotesToDispenser calls in this incarnation
    dispatchedBefore,    \* keys dispatched by earlier incarnations
    observed,            \* the upvotesRequired the last finished tick got from getConfig
    \* the NFT contract
    nftOwner,            \* token id -> the account that holds it
    \* the module's top-level code (part_003 lines 84-809)
    missing,             \* the required parameters absent from process.env
    mainPc,              \* the statement the top-level code has reached
    console,             \* what the process printed: the parameters named in the
                         \* config error, the [HEARTBEAT] lines
    installed,           \* the process events that have a listener
    interval,            \* setInterval(tick, POLL_MS) was called
    cause,               \* what ended the process during or after its start-up
    \* the logs directory
    logDir,              \* the names of the files in ./logs
    today,               \* the calendar day
    currentLogDate,      \* getLogFile's cached day, 0 for null
    \* transactions
    receipts,            \* the dispenser's mined calls, in order: sender, call, status
    gas,                 \* the gas prices of the dispatch followed: read, simulated, sent
    nftContract          \* the dispenser's nftContract: the collection it serves

botVars == <<processedLogIds, lastProcessedBlock, configCache, heartbeatCount>>
procVars == <<phase, exitCode, runs>>
fileVars == <<stateFile, auditLog, dispenserLog>>
chainVars == <<queuedNFTs, upvotesRequired, userUpvotes, pending, nonce, deposited, nftOwner>>
histVars == <<dispatched, dispatchedBefore, observed>>
startVars == <<missing, mainPc, console, installed, interval, cause>>
logVars == <<logDir, today, currentLogDate>>
txVars == <<receipts, gas, nftContract>>
envVars == <<now, clock, delivered, fired, faults, scenario, sets, startVars, logVars,
             txVars>>
vars == <<botVars, handlers, ticks, running, procVars, fileVars, envVars,
          chainVars, histVars>>

LogIds == {LogId(l) : l \in Logs}

\* --------------------------------------------------------------- log files
Entry(type, key, user, val, tx) ==
    [type |-> type, key |-> key, user |-> user, val |-> val, tx |-> tx]

\* a logger that writes nothing
logNothing(log, type, key, user, val, tx) == log

\* logInfo / logWarning / logError -> logToFile: append one entry to the daily log
logToFile(log, type, key, user, val, tx) == Append(log, Entry(type, key, user, val, tx))

\* an action logger that writes nothing
actionNothing(log, action, key, user, val, tx) == log

\* logDispenserAction: append one entry to dispenser-actions.jsonl
logDispenserAction(log, action, key, user, val, tx) ==
    Append(log, Entry(action, key, user, val, tx))

\* ------------------------------------------------------------ daily logs
\* line 695: the files kept by the clean-up
KeepFiles == 7

\* ".jsonl" as character codes
Jsonl == <<46, 106, 115, 111, 110, 108>>

\* line 92: dispenser-actions.jsonl (its name shortened to "disp")
DISPENSER_LOG_FILE == <<100, 105, 115, 112>> \o Jsonl

\* lines 680 and 688: `${today}.jsonl`, the day written with two digits
DailyFile(day) == <<48 + (day \div 10), 48 + (day % 10)>> \o Jsonl

\* String.prototype.endsWith
endsWith(name, suffix) ==
    /\ Len(name) >= Len(suffix)
    /\ SubSeq(name, Len(name) - Len(suffix) + 1, Len(name)) = suffix

\* the order of Array.prototype.sort without a comparator: by code units
RECURSIVE LexLess(_, _)
LexLess(a, b) ==
    IF a = <<>> THEN b # <<>>
    ELSE IF b = <<>> THEN FALSE
    ELSE IF Head(a) # Head(b) THEN Head(a) < Head(b)
    ELSE LexLess(Tail(a), Tail(b))

\* Array.prototype.sort of a set of distinct names
RECURSIVE Sorted(_)
Sorted(files) ==
    IF files = {} THEN <<>>
    ELSE LET least == CHOOSE f \in files : \A g \in files \ {f} : LexLess(f, g)
         IN  <<least>> \o Sorted(files \ {least})

\* a slice that drops the first n elements instead of the last n
SliceFrom(a, n) == SubSeq(a, n + 1, Len(a))

\* Array.prototype.slice(0, -n)
SliceOff(a, n) == SubSeq(a, 1, Len(a) - n)

\* lines 691-695: the files the clean-up deletes
OldFiles(dir) ==
    LET jsonl == {f \in dir : endsWith(f, Jsonl)}
        doomed == SliceOff(Sorted(jsonl), KeepFiles)
    IN  {doomed[i] : i \in DOMAIN doomed}

\* lines 679-710 and 724: the directory after a log write on day d, when
\* getLogFile last returned a file for day cached (0: none yet in this process)
AfterLogWrite(dir, d, cached) ==
    (IF cached = d THEN dir ELSE dir \ OldFiles(dir)) \cup {DailyFile(d)}

\* lines 699 and 213-216: the entries of dispenser-actions.jsonl in the directory
\* dir: an unlinked file has lost them, and it is created again empty
DispenserFile(log, dir) == IF DISPENSER_LOG_FILE \in dir THEN log ELSE <<>>

\* ------------------------------------------------------------ the process
ProcessEvents == {"SIGINT", "SIGTERM", "uncaughtException", "unhandledRejection"}

\* lines 84-88: the parameters validateConfig requires
RequiredParams == {"BASE_MAINNET_RPC_URL", "PRIVATE_KEY", "DISPENSER_ADDRESS",
                   "TRACKED_TOKEN_ADDRESS", "UPVOTE_APP_ADDRESS"}

\* ------------------------------------------------------------- state file
NoFile == [exists |-> FALSE, processed |-> <<>>, lastProcessedBlock |-> <<>>, tip |-> <<>>]

\* a state file an earlier incarnation left: StateCap keys, the newest 500:0
FullFile == [exists |-> TRUE,
             processed |-> [i \in 1..StateCap |-> <<i, 0>>],
             lastProcessedBlock |-> toString(10),
             tip |-> toString(TotalMessages)]

\* a state file an earlier incarnation left after handling log 500:0
OldFile == [exists |-> TRUE,
            processed |-> << <<500, 0>> >>,
            lastProcessedBlock |-> toString(10),
            tip |-> toString(TotalMessages)]

\* The behaviours explored: how many batches, ticks, restarts and clock advances
\* the environment produces, and the state file the first incarnation finds.
Scenarios ==
    { [deliveries |-> MaxDeliveries, ticks |-> 0, exits |-> 0, restarts |-> 0,
       clock |-> MaxClock, faults |-> MaxFaults, sets |-> 0, files |-> {NoFile, OldFile}],
      [deliveries |-> MaxDeliveries, ticks |-> 0, exits |-> MaxRestarts,
       restarts |-> MaxRestarts, clock |-> 0, faults |-> 0, sets |-> 0, files |-> {NoFile}],
      [deliveries |-> MaxDeliveries - 1, ticks |-> MaxTicks, exits |-> MaxRestarts + 1,
       restarts |-> MaxRestarts, clock |-> 0, faults |-> MaxFaults, sets |-> 0,
       files |-> {NoFile}],
      [deliveries |-> MaxDeliveries - 1, ticks |-> MaxTicks, exits |-> MaxRestarts,
       restarts |-> MaxRestarts, clock |-> 0, faults |-> 0, sets |-> 0, files |-> {FullFile}],
      [deliveries |-> 0, ticks |-> MaxTicks + 1, exits |-> 0, restarts |-> 0,
       clock |-> MaxClock, faults |-> 0, sets |-> MaxSets, files |-> {NoFile}],
      [deliveries |-> MaxDeliveries - 1, ticks |-> 0, exits |-> 0, restarts |-> 0,
       clock |-> 0, faults |-> 0, sets |-> MaxSets, files |-> {NoFile}] }

\* new Set(array): the distinct elements in order of first occurrence
SetOf(a) ==
    LET first == {i \in DOMAIN a : \A j \in 1..(i - 1) : a[j] # a[i]}
        nth(k) == CHOOSE i \in first : Cardinality({j \in first : j <= i}) = k
    IN  IF Cardinality({a[i] : i \in DOMAIN a}) = Len(a) THEN a
        ELSE [k \in 1..Cardinality(first) |-> a[nth(k)]]

Has(set, x) == \E i \in DOMAIN set : set[i] = x

\* Set.prototype.add
Add(set, x) == IF Has(set, x) THEN set ELSE Append(set, x)

\* lines 218-235: the processed set restored from net_state.json
LoadProcessedLogIds(file) == IF file.exists THEN SetOf(file.processed) ELSE <<>>

\* lines 226-228: the last processed block restored from net_state.json
LoadLastProcessedBlock(file) ==
    IF file.exists /\ file.lastProcessedBlock # <<>> THEN BigInt(file.lastProcessedBlock) ELSE 0

\* a slice that keeps the head of the array instead of its tail
SliceHead(a, start) == SubSeq(a, 1, Len(a) - start)

\* Array.prototype.slice(start)
Slice(a, start) == SubSeq(a, start + 1, Len(a))

\* a state object that holds the whole set
UntrimmedState(set, block, tip) ==
    [exists |-> TRUE,
     processed |-> set,
     lastProcessedBlock |-> toString(block),
     tip |-> toString(tip)]

\* lines 639-647: the state object a tick writes
TrimmedState(set, block, tip) ==
    [exists |-> TRUE,
     processed |-> Slice(set, Max(0, Len(set) - StateCap)),
     lastProcessedBlock |-> toString(block),
     tip |-> toString(tip)]

\* ------------------------------------------------------------ config cache
Undefined == [upvotesRequired |-> <<>>, queuedNFTCount |-> 0, queuedNFTs |-> <<>>,
              lastUpdated |-> -1]

EmptyCache == [timestamp |-> 0, data |-> Undefined]

\* a cache whose snapshot never expires
CacheNeverExpires(t) == configCache.timestamp # 0

\* line 255: the cached snapshot is still fresh at time t
CacheFresh(t) == configCache.timestamp # 0 /\ t - configCache.timestamp < CACHE_TTL_MS

\* lines 274-279: the snapshot built from a successful remote read
FreshConfig(t) ==
    [upvotesRequired |-> toString(upvotesRequired),
     queuedNFTCount |-> Len(queuedNFTs),
     queuedNFTs |-> [i \in DOMAIN queuedNFTs |-> toString(queuedNFTs[i])],
     lastUpdated |-> t]

\* defaults that pretend one NFT is queued
StockedDefault == [upvotesRequired |-> toString(200), queuedNFTCount |-> 1,
                   queuedNFTs |-> <<toString(1)>>, lastUpdated |-> 0]

\* lines 310-315: the defaults returned when the read fails and nothing is cached
DefaultConfig == [upvotesRequired |-> toString(200), queuedNFTCount |-> 0,
                  queuedNFTs |-> <<>>, lastUpdated |-> 0]

\* lines 303-315: what getConfig returns when the remote read failed
FallbackConfig == IF configCache.data # Undefined THEN configCache.data ELSE DefaultConfig

\* ------------------------------------------------------------------ frames
IdleHandler == [pc |-> "idle", logs |-> <<>>, i |-> 0, now |-> 0, queuedNFTCount |-> 0,
                hash |-> 0]
IdleTick == [pc |-> "idle", now |-> 0, upvotesRequired |-> <<>>, queuedNFTCount |-> 0]

HandlerIds == 1..MaxDeliveries
TickIds == 1..MaxTicks

None == <<"none", 0>>

\* no dispatch followed yet: no gas price read, simulated or sent
NoGas == [gasPrice |-> 0, simulated |-> 0, sent |-> 0]

\* MegapurrDispenser.sol lines 15 and 35: the collection the dispenser is
\* deployed for
Megapurr == "megapurr"

H(h) == <<"onLogs", h>>
T(t) == <<"tick", t>>

\* ------------------------------------------------------------------- Init
Init ==
    /\ scenario \in Scenarios
    /\ stateFile \in scenario.files
    /\ processedLogIds = LoadProcessedLogIds(stateFile)
    /\ lastProcessedBlock = LoadLastProcessedBlock(stateFile)
    /\ configCache = EmptyCache
    /\ heartbeatCount = 0
    /\ handlers = [h \in HandlerIds |-> IdleHandler]
    /\ ticks = [t \in TickIds |-> IdleTick]
    /\ running = None
    /\ phase = "up"
    /\ exitCode = 0
    /\ runs = 1
    /\ auditLog = <<Entry("startup_success", NoKey, "", 0, 0)>>
    /\ dispenserLog = <<>>
    /\ now = POLL_MS
    /\ clock = 0
    /\ delivered = 0
    /\ fired = 0
    /\ faults = 0
    /\ sets = 0
    /\ queuedNFTs = <<>>
    /\ upvotesRequired = DefaultUpvotesRequired
    /\ userUpvotes = [u \in Users |-> 0]
    /\ pending = <<>>
    /\ nonce = 0
    /\ deposited = 0
    /\ dispatched = [k \in LogIds |-> 0]
    /\ dispatchedBefore = {}
    /\ observed = <<>>
    /\ nftOwner = [id \in 1..MaxQueue |-> "depositor"]
    /\ missing = {}
    /\ mainPc = "done"
    /\ console = <<>>
    /\ installed = ProcessEvents
    /\ interval = TRUE
    /\ cause = ""
    /\ today = 1
    /\ currentLogDate = 1
    /\ logDir = {DISPENSER_LOG_FILE, DailyFile(1)}
    /\ receipts = <<>>
    /\ gas = NoGas
    /\ nftContract = Megapurr

\* ------------------------------------------------------- the event watcher
\* a filter that lets every token through
TokenAny(log) == TRUE

\* line 369: the token filter, case-insensitive
TokenMatches(log) ==
    toLowerCase(log.token) = toLowerCase(NORMALIZED_TRACKED_TOKEN_ADDRESS)

\* a filter that lets every amount through
AmountAny(log) == TRUE

\* line 370: the amount filter, against the bot's own constant
AmountMatches(log) == log.numUpvotes = REQUIRED_UPVOTES

\* lines 369-370
Matches(log) == TokenMatches(log) /\ AmountMatches(log)

\* a membership test that never finds the key
NeverProcessed(id) == FALSE

\* line 362: the log was handled before
AlreadyProcessed(id) == Has(processedLogIds, id)

\* a handler that does not mark the key
MarkNothing(set, id) == set

\* line 373: the key is marked before getConfig and the dispatch are awaited
MarkProcessed(set, id) == Add(set, id)

\* a tracker that takes the block of whatever log was handled last
TrackLatestBlock(log) == log.blockNumber

\* lines 440-442
TrackLastProcessedBlock(log) ==
    IF log.blockNumber # 0 /\ log.blockNumber > lastProcessedBlock
    THEN log.blockNumber ELSE lastProcessedBlock

\* the frame once the current log is finished: the next log, or the end of the batch
NextLog(fr) ==
    IF fr.i + 1 > Len(fr.logs) THEN IdleHandler
    ELSE [fr EXCEPT !.pc = "loop", !.i = fr.i + 1, !.now = 0, !.queuedNFTCount = 0,
                    !.hash = 0]

Holder(h, fr) == IF fr.pc = "idle" THEN None ELSE H(h)

CurrentLog(h) == handlers[h].logs[handlers[h].i]

\* lines 541-576: handler h is inside addUpvotesToDispenser
InDispatch(h) ==
    handlers[h].pc \in {"getGasPrice", "simulateContract", "writeContract", "writeContractSent"}

\* lines 373-437: handler h has marked its current log and not yet logged its outcome
MidDecision(h) == handlers[h].pc \in {"getConfig", "decide"} \/ InDispatch(h)

\* line 359: the subscription calls onLogs with a batch; the library does not
\* wait for the promise an earlier call returned
onLogs(h, batch) ==
    /\ phase = "up" /\ running = None /\ delivered < scenario.deliveries
    /\ delivered' = delivered + 1
    /\ handlers[h].pc = "idle"
    /\ \A g \in HandlerIds : g < h => handlers[g].pc # "idle"
    /\ handlers' = [handlers EXCEPT ![h] = [IdleHandler EXCEPT !.pc = "loop", !.logs = batch, !.i = 1]]
    /\ running' = H(h)
    /\ UNCHANGED <<botVars, ticks, procVars, fileVars, now, clock, fired, faults, scenario, sets, startVars, logVars, txVars,
                   chainVars,
                   histVars>>

\* lines 360-362: a log whose key is in processedLogIds is skipped
onLogsSkip(h) ==
    /\ phase = "up" /\ running = H(h) /\ handlers[h].pc = "loop"
    /\ AlreadyProcessed(LogId(CurrentLog(h)))
    /\ handlers' = [handlers EXCEPT ![h] = NextLog(@)]
    /\ running' = Holder(h, handlers'[h])
    /\ UNCHANGED <<botVars, ticks, procVars, fileVars, envVars, chainVars, histVars>>

\* lines 364-370: a log that fails the filter is dropped
onLogsDrop(h) ==
    /\ phase = "up" /\ running = H(h) /\ handlers[h].pc = "loop"
    /\ ~AlreadyProcessed(LogId(CurrentLog(h)))
    /\ ~Matches(CurrentLog(h))
    /\ handlers' = [handlers EXCEPT ![h] = NextLog(@)]
    /\ running' = Holder(h, handlers'[h])
    /\ UNCHANGED <<botVars, ticks, procVars, fileVars, envVars, chainVars, histVars>>

\* lines 372-385 and 253-257: a matched log is marked processed, logged, and
\* getConfig is called: it returns the cached snapshot when fresh, else it
\* starts the remote read and the handler is suspended
onLogsMark(h) ==
    LET log == CurrentLog(h) IN
    /\ phase = "up" /\ running = H(h) /\ handlers[h].pc = "loop"
    /\ ~AlreadyProcessed(LogId(log))
    /\ Matches(log)
    /\ processedLogIds' = MarkProcessed(processedLogIds, LogId(log))
    /\ auditLog' = logToFile(auditLog, "upvote_event_seen", LogId(log), log.user,
                             log.numUpvotes, 0)
    /\ IF CacheFresh(now)
       THEN /\ handlers' = [handlers EXCEPT ![h] =
                   [@ EXCEPT !.pc = "decide",
                             !.queuedNFTCount = configCache.data.queuedNFTCount]]
            /\ running' = running
       ELSE /\ handlers' = [handlers EXCEPT ![h] = [@ EXCEPT !.pc = "getConfig", !.now = now]]
            /\ running' = None
    /\ UNCHANGED <<lastProcessedBlock, configCache, heartbeatCount, ticks, procVars,
                   stateFile, dispenserLog, envVars, chainVars, histVars>>

\* lines 261-296: the remote read of getConfig succeeded
onLogsConfigRead(h) ==
    LET config == FreshConfig(handlers[h].now) IN
    /\ phase = "up" /\ running = None /\ handlers[h].pc = "getConfig"
    /\ auditLog' = logToFile(auditLog, "config_updated", NoKey, "", config.queuedNFTCount, 0)
    /\ dispenserLog' = logDispenserAction(dispenserLog, "config_updated", NoKey, "",
                                          config.queuedNFTCount, 0)
    /\ configCache' = [timestamp |-> handlers[h].now, data |-> config]
    /\ handlers' = [handlers EXCEPT ![h] =
           [@ EXCEPT !.pc = "decide", !.now = 0, !.queuedNFTCount = config.queuedNFTCount]]
    /\ running' = H(h)
    /\ UNCHANGED <<processedLogIds, lastProcessedBlock, heartbeatCount, ticks, procVars,
                   stateFile, envVars, chainVars, histVars>>

\* lines 297-316: the remote read of getConfig failed
onLogsConfigFailed(h) ==
    /\ phase = "up" /\ running = None /\ handlers[h].pc = "getConfig"
    /\ faults < scenario.faults /\ faults' = faults + 1
    /\ auditLog' = logToFile(auditLog, "config_fetch_error", NoKey, "", 0, 0)
    /\ handlers' = [handlers EXCEPT ![h] =
           [@ EXCEPT !.pc = "decide", !.now = 0,
                     !.queuedNFTCount = FallbackConfig.queuedNFTCount]]
    /\ running' = H(h)
    /\ UNCHANGED <<botVars, ticks, procVars, stateFile, dispenserLog, now, clock, delivered, fired, scenario, sets, startVars, logVars, txVars,
                   chainVars, histVars>>

\* a depletion test that never fires
DepletedNever(count) == count < 0

\* line 386: no inventory in the snapshot
Depleted(count) == count = 0

\* lines 386-400: no inventory: the depleted outcome is logged, nothing is dispatched
onLogsDepleted(h) ==
    LET log == CurrentLog(h) IN
    /\ phase = "up" /\ running = H(h) /\ handlers[h].pc = "decide"
    /\ Depleted(handlers[h].queuedNFTCount)
    /\ auditLog' = logToFile(auditLog, "dispenser_depleted", LogId(log), log.user, 0, 0)
    /\ dispenserLog' = logDispenserAction(dispenserLog, "inventory_depleted", LogId(log),
                                          log.user, 0, 0)
    /\ handlers' = [handlers EXCEPT ![h] = NextLog(@)]
    /\ running' = Holder(h, handlers'[h])
    /\ UNCHANGED <<botVars, ticks, procVars, stateFile, envVars, chainVars, histVars>>

\* lines 402-403 and 541-544: addUpvotesToDispenser is called and reads the gas price
onLogsDispatch(h) ==
    /\ phase = "up" /\ running = H(h) /\ handlers[h].pc = "decide"
    /\ ~Depleted(handlers[h].queuedNFTCount)
    /\ dispatched' = [dispatched EXCEPT ![LogId(CurrentLog(h))] = @ + 1]
    /\ handlers' = [handlers EXCEPT ![h] = [@ EXCEPT !.pc = "getGasPrice"]]
    /\ running' = None
    /\ UNCHANGED <<botVars, ticks, procVars, fileVars, envVars, chainVars, dispatchedBefore,
                   observed>>

\* lines 545-554: the gas price arrived; the call is simulated
addUpvotesSimulate(h) ==
    /\ phase = "up" /\ running = None /\ handlers[h].pc = "getGasPrice"
    /\ handlers' = [handlers EXCEPT ![h] = [@ EXCEPT !.pc = "simulateContract"]]
    /\ UNCHANGED <<botVars, ticks, running, procVars, fileVars, envVars, chainVars, histVars>>

\* a dispatcher that submits without simulating
addUpvotesUnsimulated(h) ==
    /\ phase = "up" /\ running = None /\ handlers[h].pc = "getGasPrice"
    /\ handlers' = [handlers EXCEPT ![h] = [@ EXCEPT !.pc = "writeContract"]]
    /\ UNCHANGED <<botVars, ticks, running, procVars, fileVars, envVars, chainVars, histVars>>

\* line 556: the simulation succeeded; the transaction is sent
addUpvotesWrite(h) ==
    /\ phase = "up" /\ running = None /\ handlers[h].pc = "simulateContract"
    /\ handlers' = [handlers EXCEPT ![h] = [@ EXCEPT !.pc = "writeContract"]]
    /\ UNCHANGED <<botVars, ticks, running, procVars, fileVars, envVars, chainVars, histVars>>

\* the node accepts the transaction into its pending pool
TxAccepted(h) ==
    LET log == CurrentLog(h) IN
    /\ phase = "up" /\ running = None /\ handlers[h].pc = "writeContract"
    /\ nonce' = nonce + 1
    /\ pending' = Append(pending, [user |-> log.user, amount |-> REQUIRED_UPVOTES,
                                   hash |-> nonce + 1])
    /\ handlers' = [handlers EXCEPT ![h] = [@ EXCEPT !.pc = "writeContractSent",
                                                     !.hash = nonce + 1]]
    /\ UNCHANGED <<botVars, ticks, running, procVars, fileVars, envVars,
                   queuedNFTs, upvotesRequired, userUpvotes, deposited, nftOwner, histVars>>

\* lines 556-566 and 404-422, 439-442: writeContract resolved with a hash; the
\* award is logged and the last processed block tracked
onLogsAwarded(h) ==
    LET log == CurrentLog(h)
        hash == handlers[h].hash
        afterCall == logToFile(auditLog, "dispenser_call", NoKey, log.user,
                               REQUIRED_UPVOTES, hash)
    IN
    /\ phase = "up" /\ running = None /\ handlers[h].pc = "writeContractSent"
    /\ auditLog' = logToFile(afterCall, "award_success", LogId(log), log.user,
                             REQUIRED_UPVOTES, hash)
    /\ dispenserLog' = logDispenserAction(dispenserLog, "nft_awarded", LogId(log), log.user,
                                          handlers[h].queuedNFTCount, hash)
    /\ lastProcessedBlock' = TrackLastProcessedBlock(log)
    /\ handlers' = [handlers EXCEPT ![h] = NextLog(@)]
    /\ running' = Holder(h, handlers'[h])
    /\ UNCHANGED <<processedLogIds, configCache, heartbeatCount, ticks, procVars,
                   stateFile, envVars, chainVars, histVars>>

\* lines 567-575 and 423-442: a step of addUpvotesToDispenser threw; the error is
\* caught, null returned and the failure logged
onLogsAwardFailed(h) ==
    LET log == CurrentLog(h)
        afterError == logToFile(auditLog, "dispenser_call_error", NoKey, log.user,
                                REQUIRED_UPVOTES, 0)
    IN
    /\ phase = "up" /\ running = None
    /\ faults < scenario.faults /\ faults' = faults + 1
    /\ handlers[h].pc \in {"getGasPrice", "simulateContract", "writeContract",
                          "writeContractSent"}
    /\ auditLog' = logToFile(afterError, "award_failed", LogId(log), log.user,
                             REQUIRED_UPVOTES, 0)
    /\ dispenserLog' = logDispenserAction(dispenserLog, "award_failed", LogId(log), log.user,
                                          REQUIRED_UPVOTES, 0)
    /\ lastProcessedBlock' = TrackLastProcessedBlock(log)
    /\ handlers' = [handlers EXCEPT ![h] = NextLog(@)]
    /\ running' = Holder(h, handlers'[h])
    /\ UNCHANGED <<processedLogIds, configCache, heartbeatCount, ticks, procVars,
                   stateFile, now, clock, delivered, fired, scenario, sets, startVars, logVars, txVars, chainVars, histVars>>

\* --------------------------------------------------------------- heartbeat
\* lines 634-637 and 253-257: the timer fires; tick calls getConfig, which
\* returns the cached snapshot when fresh (tick goes on to read the tip), else
\* starts the remote read
tick(t) ==
    /\ phase = "up" /\ running = None /\ fired < scenario.ticks
    /\ fired' = fired + 1
    /\ ticks[t].pc = "idle"
    /\ \A g \in TickIds : g < t => ticks[g].pc # "idle"
    /\ ticks' = [ticks EXCEPT ![t] =
           IF CacheFresh(now)
           THEN [@ EXCEPT !.pc = "getCurrentTip",
                          !.upvotesRequired = configCache.data.upvotesRequired,
                          !.queuedNFTCount = configCache.data.queuedNFTCount]
           ELSE [@ EXCEPT !.pc = "getConfig", !.now = now]]
    /\ UNCHANGED <<botVars, handlers, running, procVars, fileVars, now, clock, delivered,
                   faults, scenario, sets, startVars, logVars, txVars, chainVars, histVars>>

\* lines 261-296 and 637: the remote read of getConfig succeeded; tick reads the tip
tickConfigRead(t) ==
    LET config == FreshConfig(ticks[t].now) IN
    /\ phase = "up" /\ running = None /\ ticks[t].pc = "getConfig"
    /\ auditLog' = logToFile(auditLog, "config_updated", NoKey, "", config.queuedNFTCount, 0)
    /\ dispenserLog' = logDispenserAction(dispenserLog, "config_updated", NoKey, "",
                                          config.queuedNFTCount, 0)
    /\ configCache' = [timestamp |-> ticks[t].now, data |-> config]
    /\ ticks' = [ticks EXCEPT ![t] =
           [@ EXCEPT !.pc = "getCurrentTip", !.now = 0,
                     !.upvotesRequired = config.upvotesRequired,
                     !.queuedNFTCount = config.queuedNFTCount]]
    /\ UNCHANGED <<processedLogIds, lastProcessedBlock, heartbeatCount, handlers, running,
                   procVars, stateFile, envVars, chainVars, histVars>>

\* lines 297-316 and 637: the remote read of getConfig failed; tick reads the tip
tickConfigFailed(t) ==
    /\ phase = "up" /\ running = None /\ ticks[t].pc = "getConfig"
    /\ faults < scenario.faults /\ faults' = faults + 1
    /\ auditLog' = logToFile(auditLog, "config_fetch_error", NoKey, "", 0, 0)
    /\ ticks' = [ticks EXCEPT ![t] =
           [@ EXCEPT !.pc = "getCurrentTip", !.now = 0,
                     !.upvotesRequired = FallbackConfig.upvotesRequired,
                     !.queuedNFTCount = FallbackConfig.queuedNFTCount]]
    /\ UNCHANGED <<botVars, handlers, running, procVars, stateFile, dispenserLog, now,
                   clock, delivered, fired, scenario, sets, startVars, logVars, txVars, chainVars, histVars>>

\* a tip read that fails without a log entry
TipSilent(log, tipOk) == log

\* lines 321-337: getCurrentTip returns the message count, or 0 after logging the error
TipLogged(log, tipOk) ==
    IF tipOk THEN log ELSE logToFile(log, "net_protocol_error", NoKey, "", 0, 0)

\* lines 659-665: the threshold comparison at the end of a tick
ThresholdChanged(snapshotRequired) ==
    configCache.data # Undefined /\ configCache.data.upvotesRequired # snapshotRequired

\* a heartbeat printed on every tick
HeartbeatAlways(count) == TRUE

\* line 654: heartbeatCount % HEARTBEAT_INTERVAL === 0
HeartbeatDue(count) == count % HEARTBEAT_INTERVAL = 0

\* lines 637-665: the tip arrived; the state is written, the heartbeat counted and
\* printed when due, and the threshold compared
tickPersist(t, tipOk) ==
    LET currentTip == IF tipOk THEN TotalMessages ELSE 0 IN
    /\ phase = "up" /\ running = None /\ ticks[t].pc = "getCurrentTip"
    /\ tipOk \/ faults < scenario.faults
    /\ faults' = IF tipOk THEN faults ELSE faults + 1
    /\ stateFile' = TrimmedState(processedLogIds, lastProcessedBlock, currentTip)
    /\ heartbeatCount' = heartbeatCount + 1
    /\ console' = IF HeartbeatDue(heartbeatCount + 1)
                  THEN Append(console, "HEARTBEAT") ELSE console
    /\ auditLog' = TipLogged(auditLog, tipOk)
    /\ dispenserLog' =
         IF ThresholdChanged(ticks[t].upvotesRequired)
         THEN logDispenserAction(dispenserLog, "threshold_changed", NoKey, "",
                                 BigInt(ticks[t].upvotesRequired), 0)
         ELSE dispenserLog
    /\ ticks' = [ticks EXCEPT ![t] = IdleTick]
    /\ observed' = ticks[t].upvotesRequired
    /\ UNCHANGED <<processedLogIds, lastProcessedBlock, configCache, handlers, running,
                   procVars, now, clock, delivered, fired, scenario, sets, missing, mainPc,
                   installed, interval, cause, logVars, txVars,
                   chainVars, dispatched, dispatchedBefore>>

\* lines 648 and 666-672: writing net_state.json threw; the error is caught and logged
tickWriteFailed(t, tipOk) ==
    /\ phase = "up" /\ running = None /\ ticks[t].pc = "getCurrentTip"
    /\ faults + (IF tipOk THEN 1 ELSE 2) <= scenario.faults
    /\ faults' = faults + (IF tipOk THEN 1 ELSE 2)
    /\ auditLog' = logToFile(TipLogged(auditLog, tipOk), "tick_error", NoKey, "",
                             heartbeatCount, 0)
    /\ ticks' = [ticks EXCEPT ![t] = IdleTick]
    /\ observed' = ticks[t].upvotesRequired
    /\ UNCHANGED <<botVars, handlers, running, procVars, stateFile, dispenserLog, now,
                   clock, delivered, fired, scenario, sets, startVars, logVars, txVars, chainVars,
                   dispatched, dispatchedBefore>>

\* ------------------------------------------------------------- the process
\* lines 780-790: SIGINT or SIGTERM: the shutdown entry is logged and the process exits 0
Shutdown ==
    /\ phase = "up" /\ running = None /\ runs <= scenario.exits
    /\ auditLog' = logToFile(auditLog, "shutdown", NoKey, "", Len(processedLogIds), 0)
    /\ phase' = "exited"
    /\ exitCode' = 0
    /\ handlers' = [h \in HandlerIds |-> IdleHandler]
    /\ ticks' = [t \in TickIds |-> IdleTick]
    /\ UNCHANGED <<botVars, running, runs, stateFile, dispenserLog, envVars, chainVars,
                   histVars>>

\* the process is killed (SIGKILL, power loss) while no callback is running
Crash ==
    /\ phase = "up" /\ running = None /\ runs <= scenario.exits
    /\ phase' = "exited"
    /\ exitCode' = 137
    /\ handlers' = [h \in HandlerIds |-> IdleHandler]
    /\ ticks' = [t \in TickIds |-> IdleTick]
    /\ UNCHANGED <<botVars, running, runs, fileVars, envVars, chainVars, histVars>>

\* lines 200-235 and 751-777: the supervisor starts the process again; the state
\* is loaded from net_state.json
Restart ==
    /\ phase = "exited" /\ runs <= scenario.restarts
    /\ phase' = "up"
    /\ exitCode' = 0
    /\ runs' = runs + 1
    /\ processedLogIds' = LoadProcessedLogIds(stateFile)
    /\ lastProcessedBlock' = LoadLastProcessedBlock(stateFile)
    /\ configCache' = EmptyCache
    /\ heartbeatCount' = 0
    /\ auditLog' = logToFile(auditLog, "startup_success", NoKey, "", 0, 0)
    /\ dispatchedBefore' = dispatchedBefore \cup {k \in LogIds : dispatched[k] > 0}
    /\ dispatched' = [k \in LogIds |-> 0]
    /\ UNCHANGED <<handlers, ticks, running, stateFile, dispenserLog, envVars, chainVars,
                   observed>>

\* --------------------------------------------------------- the environment
\* Date.now() moves on
AdvanceClock(d) ==
    /\ running = None /\ clock < scenario.clock
    /\ now' = now + d
    /\ clock' = clock + 1
    /\ UNCHANGED <<botVars, handlers, ticks, running, procVars, fileVars, delivered, fired,
                   faults, scenario, sets, startVars, logVars, txVars, chainVars, histVars>>

\* MegapurrDispenser.sol lines 61-66: a holder sends the next NFT of the
\* collection straight to the dispenser, whose onERC721Received queues it
onERC721Received ==
    /\ running = None /\ deposited < MaxQueue
    /\ queuedNFTs' = Append(queuedNFTs, deposited + 1)
    /\ deposited' = deposited + 1
    /\ nftOwner' = [nftOwner EXCEPT ![deposited + 1] = "dispenser"]
    /\ UNCHANGED <<botVars, handlers, ticks, running, procVars, fileVars, envVars,
                   upvotesRequired, userUpvotes, pending, nonce, histVars>>

\* the thresholds the owner may set
Thresholds == {200, 840}

\* MegapurrDispenser.sol lines 72-74: the owner changes the threshold
setUpvotesRequired(newThreshold) ==
    /\ running = None /\ sets < scenario.sets
    /\ newThreshold # upvotesRequired
    /\ sets' = sets + 1
    /\ upvotesRequired' = newThreshold
    /\ UNCHANGED <<botVars, handlers, ticks, running, procVars, fileVars, now, clock,
                   delivered, fired, faults, scenario, startVars, logVars, txVars,
                   queuedNFTs, userUpvotes, pending, nonce, deposited, nftOwner, histVars>>

\* MegapurrDispenser.sol line 45: the call awards an NFT
Awards(votes) == votes >= upvotesRequired /\ Len(queuedNFTs) > 0

\* MegapurrDispenser.sol lines 40-52: the oldest pending addUpvotes is mined
addUpvotes ==
    /\ running = None /\ Len(pending) > 0
    /\ LET tx == Head(pending)
           votes == userUpvotes[tx.user] + tx.amount
       IN  IF Awards(votes)
           THEN /\ queuedNFTs' = SubSeq(queuedNFTs, 1, Len(queuedNFTs) - 1)
                /\ userUpvotes' = [userUpvotes EXCEPT ![tx.user] = votes - upvotesRequired]
                /\ nftOwner' = [nftOwner EXCEPT ![queuedNFTs[Len(queuedNFTs)]] = tx.user]
           ELSE /\ queuedNFTs' = queuedNFTs
                /\ userUpvotes' = [userUpvotes EXCEPT ![tx.user] = votes]
                /\ nftOwner' = nftOwner
    /\ pending' = Tail(pending)
    /\ UNCHANGED <<botVars, handlers, ticks, running, procVars, fileVars, envVars,
                   upvotesRequired, nonce, deposited, histVars>>

\* -------------------------------------------------------------------- Next
Next ==
    \/ \E h \in HandlerIds, batch \in Batches : onLogs(h, batch)
    \/ \E h \in HandlerIds : onLogsSkip(h)
    \/ \E h \in HandlerIds : onLogsDrop(h)
    \/ \E h \in HandlerIds : onLogsMark(h)
    \/ \E h \in HandlerIds : onLogsConfigRead(h)
    \/ \E h \in HandlerIds : onLogsConfigFailed(h)
    \/ \E h \in HandlerIds : onLogsDepleted(h)
    \/ \E h \in HandlerIds : onLogsDispatch(h)
    \/ \E h \in HandlerIds : addUpvotesSimulate(h)
    \/ \E h \in HandlerIds : addUpvotesWrite(h)
    \/ \E h \in HandlerIds : TxAccepted(h)
    \/ \E h \in HandlerIds : onLogsAwarded(h)
    \/ \E h \in HandlerIds : onLogsAwardFailed(h)
    \/ \E t \in TickIds : tick(t)
    \/ \E t \in TickIds : tickConfigRead(t)
    \/ \E t \in TickIds : tickConfigFailed(t)
    \/ \E t \in TickIds, tipOk \in BOOLEAN : tickPersist(t, tipOk)
    \/ \E t \in TickIds, tipOk \in BOOLEAN : tickWriteFailed(t, tipOk)
    \/ Shutdown
    \/ Crash
    \/ Restart
    \/ \E d \in {POLL_MS, CACHE_TTL_MS} : AdvanceClock(d)
    \/ onERC721Received
    \/ \E newThreshold \in Thresholds : setUpvotesRequired(newThreshold)
    \/ addUpvotes

Spec == Init /\ [][Next]_vars

\* ================================================== the module's start-up
\* The top-level code of part_003 runs once, in source order. StartupSpec
\* follows it statement by statement, then lets the timer and the process
\* events act on the process that came up.

\* lines 99-121: the order in which validateConfig tests the parameters
ValidateOrder == <<"BASE_MAINNET_RPC_URL", "PRIVATE_KEY", "DISPENSER_ADDRESS",
                   "TRACKED_TOKEN_ADDRESS", "UPVOTE_APP_ADDRESS">>

\* lines 97-121: the errors array, one entry per missing parameter
Errors(absent) == SelectSeq(ValidateOrder, LAMBDA param : param \in absent)

\* what the environment does to a process that is starting
StartupScenario ==
    [deliveries |-> 0, ticks |-> MaxTicks, exits |-> 0, restarts |-> 0, clock |-> 0,
     faults |-> 0, sets |-> 0, files |-> {NoFile, OldFile}]

StartupInit ==
    /\ scenario = StartupScenario
    /\ stateFile \in scenario.files
    /\ missing \in SUBSET RequiredParams
    /\ mainPc = "clients"
    /\ phase = "starting"
    /\ console = <<>>
    /\ installed = {}
    /\ interval = FALSE
    /\ cause = ""
    /\ processedLogIds = <<>>
    /\ lastProcessedBlock = 0
    /\ configCache = EmptyCache
    /\ heartbeatCount = 0
    /\ handlers = [h \in HandlerIds |-> IdleHandler]
    /\ ticks = [t \in TickIds |-> IdleTick]
    /\ running = None
    /\ exitCode = 0
    /\ runs = 1
    /\ auditLog = <<>>
    /\ dispenserLog = <<>>
    /\ now = POLL_MS
    /\ clock = 0
    /\ delivered = 0
    /\ fired = 0
    /\ faults = 0
    /\ sets = 0
    /\ queuedNFTs = <<>>
    /\ upvotesRequired = DefaultUpvotesRequired
    /\ userUpvotes = [u \in Users |-> 0]
    /\ pending = <<>>
    /\ nonce = 0
    /\ deposited = 0
    /\ nftOwner = [id \in 1..MaxQueue |-> "depositor"]
    /\ dispatched = [k \in LogIds |-> 0]
    /\ dispatchedBefore = {}
    /\ observed = <<>>
    /\ today = 1
    /\ currentLogDate = 0
    /\ logDir \in {{}, {DISPENSER_LOG_FILE, DailyFile(1)}}
    /\ receipts = <<>>
    /\ gas = NoGas
    /\ nftContract = Megapurr

\* what no start-up statement touches
startupRest == <<configCache, heartbeatCount, handlers, ticks, running, runs, stateFile,
                 dispenserLog, now, clock, delivered, fired, faults, scenario, sets,
                 chainVars, histVars, today, missing, txVars>>

\* process.exit(code), or the death of the process
Exit(code, why) == phase' = "exited" /\ exitCode' = code /\ cause' = why

\* logToFile during start-up: the entry, and getLogFile's work on ./logs
StartupLog(entries) ==
    /\ auditLog' = auditLog \o entries
    /\ logDir' = AfterLogWrite(logDir, today, currentLogDate)
    /\ currentLogDate' = today

\* an exception nobody catches: lines 793-809 if the listener is installed,
\* else Node prints the stack and exits with code 1
Raise(kind) ==
    /\ IF kind \in installed
       THEN StartupLog(<<Entry("fatal_error", NoKey, "", Len(processedLogIds), 0)>>)
       ELSE UNCHANGED <<auditLog, logDir, currentLogDate>>
    /\ Exit(1, kind)

\* lines 185-198: the clients are created; privateKeyToAccount throws on
\* `0x${undefined}` and on a key that is not 32 hex bytes
CreateClients(keyOk) ==
    /\ phase = "starting" /\ mainPc = "clients"
    /\ IF "PRIVATE_KEY" \in missing \/ ~keyOk
       THEN /\ Raise("uncaughtException")
            /\ UNCHANGED <<mainPc, console, installed, interval, processedLogIds,
                           lastProcessedBlock, startupRest>>
       ELSE /\ mainPc' = "state"
            /\ UNCHANGED <<phase, exitCode, cause, console, installed, interval, auditLog,
                           logDir, currentLogDate, processedLogIds, lastProcessedBlock,
                           startupRest>>

\* lines 200-235: ./logs and the dispenser log are created, net_state.json is loaded
LoadState ==
    /\ phase = "starting" /\ mainPc = "state"
    /\ logDir' = logDir \cup {DISPENSER_LOG_FILE}
    /\ processedLogIds' = LoadProcessedLogIds(stateFile)
    /\ lastProcessedBlock' = LoadLastProcessedBlock(stateFile)
    /\ mainPc' = "validateConfig"
    /\ UNCHANGED <<phase, exitCode, cause, console, installed, interval, auditLog,
                   currentLogDate, startupRest>>

\* lines 754 and 96-159: the missing parameters are listed and the process
\* exits 1; else the addresses are normalised, which exits 1 on a malformed one
validateConfig(addressesOk) ==
    /\ phase = "starting" /\ mainPc = "validateConfig"
    /\ IF Len(Errors(missing)) > 0
       THEN console' = Errors(missing) /\ Exit(1, "validateConfig") /\ mainPc' = mainPc
       ELSE IF ~addressesOk
       THEN console' = console /\ Exit(1, "getAddress") /\ mainPc' = mainPc
       ELSE /\ mainPc' = "watchUpvotes"
            /\ UNCHANGED <<phase, exitCode, cause, console>>
    /\ UNCHANGED <<installed, interval, auditLog, logDir, currentLogDate, processedLogIds,
                   lastProcessedBlock, startupRest>>

\* a test that lets a missing subscription pass
AnySubscription(unwatch) == FALSE

\* line 759: `if (!unwatch)`
NoSubscription(unwatch) == unwatch = "null"

\* lines 758-763 and 354-461: watchUpvotes sets the subscription up, or catches
\* the error, logs watch_setup_error and returns null; without a subscription
\* startup_error is logged and the process exits 1
watchUpvotes(unwatch) ==
    LET caught == IF unwatch = "null"
                  THEN <<Entry("watch_setup_error", NoKey, "", 0, 0)>>
                  ELSE <<>>
    IN
    /\ phase = "starting" /\ mainPc = "watchUpvotes"
    /\ IF NoSubscription(unwatch)
       THEN /\ StartupLog(caught \o <<Entry("startup_error", NoKey, "", 0, 0)>>)
            /\ Exit(1, "startup_error")
            /\ mainPc' = mainPc
       ELSE /\ IF caught = <<>>
               THEN UNCHANGED <<auditLog, logDir, currentLogDate>>
               ELSE StartupLog(caught)
            /\ mainPc' = "setInterval"
            /\ UNCHANGED <<phase, exitCode, cause>>
    /\ UNCHANGED <<console, installed, interval, processedLogIds, lastProcessedBlock,
                   startupRest>>

\* line 765: setInterval(tick, POLL_MS)
StartInterval ==
    /\ phase = "starting" /\ mainPc = "setInterval"
    /\ interval' = TRUE
    /\ mainPc' = "startup_success"
    /\ UNCHANGED <<phase, exitCode, cause, console, installed, auditLog, logDir,
                   currentLogDate, processedLogIds, lastProcessedBlock, startupRest>>

\* lines 768-773: startup_success is logged
LogStartupSuccess ==
    /\ phase = "starting" /\ mainPc = "startup_success"
    /\ StartupLog(<<Entry("startup_success", NoKey, "", 0, 0)>>)
    /\ mainPc' = "listeners"
    /\ UNCHANGED <<phase, exitCode, cause, console, installed, interval, processedLogIds,
                   lastProcessedBlock, startupRest>>

\* lines 779-809: the four listeners are installed; the module's code is done
InstallListeners ==
    /\ phase = "starting" /\ mainPc = "listeners"
    /\ installed' = ProcessEvents
    /\ mainPc' = "done"
    /\ phase' = "up"
    /\ UNCHANGED <<exitCode, cause, console, interval, auditLog, logDir, currentLogDate,
                   processedLogIds, lastProcessedBlock, startupRest>>

\* the number of a signal
SignalNumber(sig) == IF sig = "SIGINT" THEN 2 ELSE 15

\* SIGINT or SIGTERM arrives: lines 780-790 when the listener is installed,
\* else the default disposition ends the process (128 + signal, as a shell sees it)
Signal(sig) ==
    /\ phase # "exited"
    /\ IF sig \in installed
       THEN /\ StartupLog(<<Entry("shutdown", NoKey, "", Len(processedLogIds), 0)>>)
            /\ Exit(0, sig)
       ELSE /\ UNCHANGED <<auditLog, logDir, currentLogDate>>
            /\ Exit(128 + SignalNumber(sig), sig)
    /\ UNCHANGED <<mainPc, console, installed, interval, processedLogIds,
                   lastProcessedBlock, startupRest>>

\* lines 793-809: an exception or a rejection nobody handles, in the running process
Fault(kind) ==
    /\ phase = "up"
    /\ Raise(kind)
    /\ UNCHANGED <<mainPc, console, installed, interval, processedLogIds,
                   lastProcessedBlock, startupRest>>

StartupNext ==
    \/ \E keyOk \in BOOLEAN : CreateClients(keyOk)
    \/ LoadState
    \/ \E addressesOk \in BOOLEAN : validateConfig(addressesOk)
    \/ \E unwatch \in {"null", "unwatch"} : watchUpvotes(unwatch)
    \/ StartInterval
    \/ LogStartupSuccess
    \/ InstallListeners
    \/ \E sig \in {"SIGINT", "SIGTERM"} : Signal(sig)
    \/ \E kind \in {"uncaughtException", "unhandledRejection"} : Fault(kind)
    \/ \E t \in TickIds : interval /\ tick(t)
    \/ \E t \in TickIds : tickConfigRead(t)
    \/ \E t \in TickIds, tipOk \in BOOLEAN : tickPersist(t, tipOk)

StartupSpec == StartupInit /\ [][StartupNext]_vars

\* ================================================= the daily log files
\* LogSpec follows ./logs over the days: the bot writes log entries, the
\* calendar day changes, and the process is restarted by its supervisor.

\* the days the calendar runs through
MaxDay == 8

\* the log entries written
MaxWrites == 9

\* the dispenser actions logged
MaxActions == 2

LogScenario ==
    [deliveries |-> 0, ticks |-> 0, exits |-> 0, restarts |-> 0, clock |-> 0,
     faults |-> 0, sets |-> 0, files |-> {NoFile}]

\* lines 200-217: a first process, ./logs holding the dispenser log only
LogInit ==
    /\ scenario = LogScenario
    /\ stateFile = NoFile
    /\ processedLogIds = <<>>
    /\ lastProcessedBlock = 0
    /\ configCache = EmptyCache
    /\ heartbeatCount = 0
    /\ handlers = [h \in HandlerIds |-> IdleHandler]
    /\ ticks = [t \in TickIds |-> IdleTick]
    /\ running = None
    /\ phase = "up"
    /\ exitCode = 0
    /\ runs = 1
    /\ auditLog = <<>>
    /\ dispenserLog = <<>>
    /\ now = POLL_MS
    /\ clock = 0
    /\ delivered = 0
    /\ fired = 0
    /\ faults = 0
    /\ sets = 0
    /\ queuedNFTs = <<>>
    /\ upvotesRequired = DefaultUpvotesRequired
    /\ userUpvotes = [u \in Users |-> 0]
    /\ pending = <<>>
    /\ nonce = 0
    /\ deposited = 0
    /\ nftOwner = [id \in 1..MaxQueue |-> "depositor"]
    /\ dispatched = [k \in LogIds |-> 0]
    /\ dispatchedBefore = {}
    /\ observed = <<>>
    /\ missing = {}
    /\ mainPc = "done"
    /\ console = <<>>
    /\ installed = ProcessEvents
    /\ interval = TRUE
    /\ cause = ""
    /\ today = 1
    /\ currentLogDate = 0
    /\ logDir = {DISPENSER_LOG_FILE}
    /\ receipts = <<>>
    /\ gas = NoGas
    /\ nftContract = Megapurr

\* what the log files do not depend on
logRest == <<botVars, handlers, ticks, running, procVars, stateFile, now,
             clock, delivered, fired, faults, scenario, sets, startVars, chainVars,
             histVars, txVars>>

\* lines 712-727: logToFile writes an entry, whose timestamp falls on today,
\* into the file getLogFile returns
LogWrite ==
    /\ Len(auditLog) < MaxWrites
    /\ auditLog' = logToFile(auditLog, "info", NoKey, "", today, 0)
    /\ logDir' = AfterLogWrite(logDir, today, currentLogDate)
    /\ dispenserLog' = DispenserFile(dispenserLog, logDir')
    /\ currentLogDate' = today
    /\ UNCHANGED <<today, logRest>>

\* lines 238-250: logDispenserAction appends an entry to dispenser-actions.jsonl
LogDispenserAction ==
    /\ Len(dispenserLog) < MaxActions
    /\ dispenserLog' = logDispenserAction(DispenserFile(dispenserLog, logDir),
                                          "nft_awarded", NoKey, "", Len(dispenserLog) + 1, 0)
    /\ logDir' = logDir \cup {DISPENSER_LOG_FILE}
    /\ UNCHANGED <<auditLog, today, currentLogDate, logRest>>

\* midnight UTC: `new Date().toISOString().split('T')[0]` changes
NextDay ==
    /\ today < MaxDay
    /\ today' = today + 1
    /\ UNCHANGED <<auditLog, dispenserLog, logDir, currentLogDate, logRest>>

\* lines 676-677: a new process starts with currentLogFile and currentLogDate
\* null; lines 213-216: it writes an empty dispenser log if there is none
LogRestart ==
    /\ currentLogDate # 0
    /\ currentLogDate' = 0
    /\ dispenserLog' = DispenserFile(dispenserLog, logDir)
    /\ logDir' = logDir \cup {DISPENSER_LOG_FILE}
    /\ UNCHANGED <<auditLog, today, logRest>>

LogNext ==
    \/ LogWrite
    \/ LogDispenserAction
    \/ NextDay
    \/ LogRestart

LogSpec == LogInit /\ [][LogNext]_vars

\* the days that were logged to: the days of the entries' timestamps
LoggedDays == {auditLog[i].val : i \in DOMAIN auditLog}

\* the n most recent of a set of days
MostRecent(days, n) == {d \in days : Cardinality({e \in days : e > d}) < n}

\* ============================================== the dispenser's callers
\* DispenserSpec follows the contract alone: any account may send it a call.

\* the calls mined
MaxCalls == 3

\* MegapurrDispenser.sol lines 14 and 34: the deployer, which is the account
\* the bot signs with
owner == "bot"

\* the accounts that send transactions
Senders == {owner, "U1"}

\* the accounts that hold NFTs and may queue them
Callers == Senders \cup {"depositor"}

\* the NFTs of the collection
MaxTokens == 2

TokenIds == 1..MaxTokens

\* the collections setNftContract may name
Collections == {Megapurr, "other"}

\* the vote counts a call may carry
VoteCounts == {REQUIRED_UPVOTES, 1}

\* a modifier that lets every sender through
anySender(sender) == TRUE

\* MegapurrDispenser.sol lines 28-31: require(msg.sender == owner)
onlyOwner(sender) == sender = owner

Receipt(sender, fn, status) == [sender |-> sender, fn |-> fn, status |-> status]

DispenserScenario ==
    [deliveries |-> 0, ticks |-> 0, exits |-> 0, restarts |-> 0, clock |-> 0,
     faults |-> 0, sets |-> MaxSets, files |-> {NoFile}]

DispenserInit ==
    /\ scenario = DispenserScenario
    /\ stateFile = NoFile
    /\ processedLogIds = <<>>
    /\ lastProcessedBlock = 0
    /\ configCache = EmptyCache
    /\ heartbeatCount = 0
    /\ handlers = [h \in HandlerIds |-> IdleHandler]
    /\ ticks = [t \in TickIds |-> IdleTick]
    /\ running = None
    /\ phase = "up"
    /\ exitCode = 0
    /\ runs = 1
    /\ auditLog = <<Entry("startup_success", NoKey, "", 0, 0)>>
    /\ dispenserLog = <<>>
    /\ now = POLL_MS
    /\ clock = 0
    /\ delivered = 0
    /\ fired = 0
    /\ faults = 0
    /\ sets = 0
    /\ queuedNFTs = <<>>
    /\ upvotesRequired = DefaultUpvotesRequired
    /\ userUpvotes = [u \in Users |-> 0]
    /\ pending = <<>>
    /\ nonce = 0
    /\ deposited = 0
    /\ nftOwner = [id \in TokenIds |-> "depositor"]
    /\ dispatched = [k \in LogIds |-> 0]
    /\ dispatchedBefore = {}
    /\ observed = <<>>
    /\ missing = {}
    /\ mainPc = "done"
    /\ console = <<>>
    /\ installed = ProcessEvents
    /\ interval = TRUE
    /\ cause = ""
    /\ today = 1
    /\ currentLogDate = 1
    /\ logDir = {DISPENSER_LOG_FILE, DailyFile(1)}
    /\ receipts = <<>>
    /\ gas = NoGas
    /\ nftContract = Megapurr

\* what a call to the dispenser leaves alone
dispenserRest == <<botVars, handlers, ticks, running, procVars, fileVars, now, clock,
                   delivered, fired, faults, scenario, sets, startVars, logVars, gas,
                   pending, nonce, deposited, histVars>>

\* IERC721.ownerOf (line 6) on a collection: the tokens of any collection but
\* Megapurr stay with an account that sends nothing
ownerOf(collection, tokenId) ==
    IF collection = Megapurr THEN nftOwner[tokenId] ELSE "stranger"

\* the dispenser holds the token of the collection it now serves
Holds(tokenId) == ownerOf(nftContract, tokenId) = "dispenser"

\* a mined transaction that reverted: its receipt and no storage write
Reverted(sender, fn) ==
    /\ receipts' = Append(receipts, Receipt(sender, fn, "reverted"))
    /\ UNCHANGED <<queuedNFTs, userUpvotes, nftOwner, nftContract, upvotesRequired>>

\* MegapurrDispenser.sol lines 28-31 and 40-52: a transaction calling
\* addUpvotes(user, numVotes) is mined; it reverts unless the owner sent it,
\* and when the safeTransferFrom of line 49 reverts
addUpvotesCall(sender, user, numVotes) ==
    LET votes == userUpvotes[user] + numVotes IN
    /\ Len(receipts) < MaxCalls
    /\ IF ~onlyOwner(sender) \/ (Awards(votes) /\ ~Holds(queuedNFTs[Len(queuedNFTs)]))
       THEN Reverted(sender, "addUpvotes")
       ELSE /\ receipts' = Append(receipts, Receipt(sender, "addUpvotes", "success"))
            /\ IF Awards(votes)
               THEN /\ queuedNFTs' = SubSeq(queuedNFTs, 1, Len(queuedNFTs) - 1)
                    /\ userUpvotes' = [userUpvotes EXCEPT ![user] = votes - upvotesRequired]
                    /\ nftOwner' = [nftOwner EXCEPT ![queuedNFTs[Len(queuedNFTs)]] = user]
               ELSE /\ queuedNFTs' = queuedNFTs
                    /\ userUpvotes' = [userUpvotes EXCEPT ![user] = votes]
                    /\ nftOwner' = nftOwner
            /\ UNCHANGED <<nftContract, upvotesRequired>>
    /\ UNCHANGED dispenserRest

\* MegapurrDispenser.sol lines 54-59: queueNFT(tokenId). The safeTransferFrom
\* of line 56 hands the token to the dispenser and, the dispenser being a
\* contract, calls its onERC721Received (lines 61-66), which pushes tokenId;
\* line 57 then pushes it again
queueNFT(sender, tokenId) ==
    /\ Len(receipts) < MaxCalls
    /\ IF ownerOf(nftContract, tokenId) # sender
       THEN Reverted(sender, "queueNFT")
       ELSE /\ receipts' = Append(receipts, Receipt(sender, "queueNFT", "success"))
            /\ nftOwner' = [nftOwner EXCEPT ![tokenId] = "dispenser"]
            /\ queuedNFTs' = Append(Append(queuedNFTs, tokenId), tokenId)
            /\ UNCHANGED <<userUpvotes, nftContract, upvotesRequired>>
    /\ UNCHANGED dispenserRest

\* IERC721.safeTransferFrom (line 5) of the Megapurr collection, called by a
\* holder with the dispenser as recipient: onERC721Received (lines 61-66)
\* reverts the transfer unless Megapurr is the nftContract, and pushes tokenId
safeTransferFrom(sender, tokenId) ==
    /\ Len(receipts) < MaxCalls
    /\ IF nftOwner[tokenId] # sender \/ nftContract # Megapurr
       THEN Reverted(sender, "safeTransferFrom")
       ELSE /\ receipts' = Append(receipts, Receipt(sender, "safeTransferFrom", "success"))
            /\ nftOwner' = [nftOwner EXCEPT ![tokenId] = "dispenser"]
            /\ queuedNFTs' = Append(queuedNFTs, tokenId)
            /\ UNCHANGED <<userUpvotes, nftContract, upvotesRequired>>
    /\ UNCHANGED dispenserRest

\* MegapurrDispenser.sol lines 85-88: rescueNFT(to, tokenId) sends the token
\* away and leaves queuedNFTs as it is
rescueNFT(sender, to, tokenId) ==
    /\ Len(receipts) < MaxCalls
    /\ IF ~onlyOwner(sender) \/ ~Holds(tokenId)
       THEN Reverted(sender, "rescueNFT")
       ELSE /\ receipts' = Append(receipts, Receipt(sender, "rescueNFT", "success"))
            /\ nftOwner' = [nftOwner EXCEPT ![tokenId] = to]
            /\ UNCHANGED <<queuedNFTs, userUpvotes, nftContract, upvotesRequired>>
    /\ UNCHANGED dispenserRest

\* the transfers of a loop that reverted
NoOwners == <<>>

\* MegapurrDispenser.sol lines 92-94: the owners after queue's tokens are
\* sent to the account to one by one; NoOwners if a transfer reverts
RECURSIVE TransferAll(_, _, _)
TransferAll(owners, queue, to) ==
    IF queue = <<>> THEN owners
    ELSE IF owners[Head(queue)] # "dispenser" THEN NoOwners
    ELSE TransferAll([owners EXCEPT ![Head(queue)] = to], Tail(queue), to)

\* MegapurrDispenser.sol lines 90-97: rescueAllNFTs(to)
rescueAllNFTs(sender, to) ==
    LET owners == TransferAll(nftOwner, queuedNFTs, to) IN
    /\ Len(receipts) < MaxCalls
    /\ IF \/ ~onlyOwner(sender)
          \/ queuedNFTs # <<>> /\ (nftContract # Megapurr \/ owners = NoOwners)
       THEN Reverted(sender, "rescueAllNFTs")
       ELSE /\ receipts' = Append(receipts, Receipt(sender, "rescueAllNFTs", "success"))
            /\ nftOwner' = owners
            /\ queuedNFTs' = <<>>
            /\ UNCHANGED <<userUpvotes, nftContract, upvotesRequired>>
    /\ UNCHANGED dispenserRest

\* MegapurrDispenser.sol lines 80-82: setNftContract(newNftContract)
setNftContract(sender, newNftContract) ==
    /\ Len(receipts) < MaxCalls
    /\ IF ~onlyOwner(sender)
       THEN Reverted(sender, "setNftContract")
       ELSE /\ receipts' = Append(receipts, Receipt(sender, "setNftContract", "success"))
            /\ nftContract' = newNftContract
            /\ UNCHANGED <<queuedNFTs, userUpvotes, nftOwner, upvotesRequired>>
    /\ UNCHANGED dispenserRest

DispenserNext ==
    \/ \E sender \in Callers, tokenId \in TokenIds : queueNFT(sender, tokenId)
    \/ \E sender \in Callers, tokenId \in TokenIds : safeTransferFrom(sender, tokenId)
    \/ \E newThreshold \in Thresholds : setUpvotesRequired(newThreshold)
    \/ \E sender \in Senders, user \in Users, numVotes \in VoteCounts :
          addUpvotesCall(sender, user, numVotes)
    \/ \E sender \in Senders, tokenId \in TokenIds : rescueNFT(sender, owner, tokenId)
    \/ \E sender \in Senders : rescueAllNFTs(sender, owner)
    \/ \E sender \in Senders, newNftContract \in Collections :
          setNftContract(sender, newNftContract)

DispenserSpec == DispenserInit /\ [][DispenserNext]_vars

\* =================================================== the gas price paid
\* GasSpec follows the gas price through one call of addUpvotesToDispenser.

\* the baseline gas prices the node may report, in wei
MaxGasPrice == 40

\* a process that is up with nothing in progress, started on the state file
\* it found, and an empty dispenser
Settled(file) ==
    /\ stateFile = file
    /\ processedLogIds = LoadProcessedLogIds(file)
    /\ lastProcessedBlock = LoadLastProcessedBlock(file)
    /\ configCache = EmptyCache
    /\ heartbeatCount = 0
    /\ handlers = [h \in HandlerIds |-> IdleHandler]
    /\ ticks = [t \in TickIds |-> IdleTick]
    /\ running = None
    /\ phase = "up"
    /\ exitCode = 0
    /\ runs = 1
    /\ auditLog = <<Entry("startup_success", NoKey, "", 0, 0)>>
    /\ dispenserLog = <<>>
    /\ now = POLL_MS
    /\ clock = 0
    /\ delivered = 0
    /\ fired = 0
    /\ faults = 0
    /\ sets = 0
    /\ queuedNFTs = <<>>
    /\ upvotesRequired = DefaultUpvotesRequired
    /\ userUpvotes = [u \in Users |-> 0]
    /\ pending = <<>>
    /\ nonce = 0
    /\ deposited = 0
    /\ nftOwner = [id \in 1..MaxQueue |-> "depositor"]
    /\ dispatched = [k \in LogIds |-> 0]
    /\ dispatchedBefore = {}
    /\ observed = <<>>
    /\ missing = {}
    /\ mainPc = "done"
    /\ console = <<>>
    /\ installed = ProcessEvents
    /\ interval = TRUE
    /\ cause = ""
    /\ today = 1
    /\ currentLogDate = 1
    /\ logDir = {DISPENSER_LOG_FILE, DailyFile(1)}
    /\ receipts = <<>>
    /\ gas = NoGas
    /\ nftContract = Megapurr

GasScenario ==
    [deliveries |-> 0, ticks |-> 0, exits |-> 0, restarts |-> 0, clock |-> 0,
     faults |-> 0, sets |-> 0, files |-> {NoFile}]

GasInit == scenario = GasScenario /\ Settled(NoFile)

\* what the gas price does not depend on
gasRest == <<botVars, handlers, ticks, running, procVars, fileVars, now, clock, delivered,
             fired, faults, scenario, sets, startVars, logVars, receipts, nftContract, chainVars,
             histVars>>

\* a dispatcher that passes the baseline on as it is
unadjustedGasPrice(gasPrice) == gasPrice

\* line 545: gasPrice * BigInt(120) / BigInt(100), a BigInt division
adjustedGasPrice(gasPrice) == (gasPrice * 120) \div 100

\* line 544: publicClient.getGasPrice() resolves with the baseline
getGasPrice(gasPrice) ==
    /\ gas = NoGas
    /\ gas' = [gas EXCEPT !.gasPrice = gasPrice]
    /\ UNCHANGED gasRest

\* lines 545-554: the call is simulated with the adjusted price
simulateContract ==
    /\ gas.gasPrice # 0 /\ gas.simulated = 0
    /\ gas' = [gas EXCEPT !.simulated = adjustedGasPrice(gas.gasPrice)]
    /\ UNCHANGED gasRest

\* line 556: the request the simulation returned is submitted, its gasPrice included
writeContract ==
    /\ gas.simulated # 0 /\ gas.sent = 0
    /\ gas' = [gas EXCEPT !.sent = gas.simulated]
    /\ UNCHANGED gasRest

GasNext ==
    \/ \E gasPrice \in 1..MaxGasPrice : getGasPrice(gasPrice)
    \/ simulateContract
    \/ writeContract

GasSpec == GasInit /\ [][GasNext]_vars

\* ======================================================== the heartbeat
\* TickSpec follows the timer alone, over enough ticks for a heartbeat line.

\* the timer ticks fired
MaxBeats == 11

TickScenario ==
    [deliveries |-> 0, ticks |-> MaxBeats, exits |-> 0, restarts |-> 0,
     clock |-> MaxClock, faults |-> MaxFaults, sets |-> 0, files |-> {NoFile, OldFile}]

TickInit == scenario = TickScenario /\ \E file \in scenario.files : Settled(file)

TickNext ==
    \/ \E t \in TickIds : tick(t)
    \/ \E t \in TickIds : tickConfigRead(t)
    \/ \E t \in TickIds : tickConfigFailed(t)
    \/ \E t \in TickIds, tipOk \in BOOLEAN : tickPersist(t, tipOk)
    \/ \E t \in TickIds, tipOk \in BOOLEAN : tickWriteFailed(t, tipOk)
    \/ \E d \in {POLL_MS, CACHE_TTL_MS} : AdvanceClock(d)

TickSpec == TickInit /\ [][TickNext]_vars

\* ================================================ a process that stays up
\* FairSpec follows the event watcher of a process that is never terminated:
\* the event loop runs every continuation that is ready, and every remote call
\* a handler awaits returns or fails.

FairScenario ==
    [deliveries |-> MaxDeliveries, ticks |-> 0, exits |-> 0, restarts |-> 0,
     clock |-> 0, faults |-> MaxFaults, sets |-> 0, files |-> {NoFile, OldFile}]

FairInit == scenario = FairScenario /\ \E file \in scenario.files : Settled(file)

\* lines 360-442: the next step of onLogs invocation h, once what it awaits
\* has settled
Continue(h) ==
    \/ onLogsSkip(h)
    \/ onLogsDrop(h)
    \/ onLogsMark(h)
    \/ onLogsConfigRead(h)
    \/ onLogsConfigFailed(h)
    \/ onLogsDepleted(h)
    \/ onLogsDispatch(h)
    \/ addUpvotesSimulate(h)
    \/ addUpvotesWrite(h)
    \/ TxAccepted(h)
    \/ onLogsAwarded(h)
    \/ onLogsAwardFailed(h)

FairNext ==
    \/ \E h \in HandlerIds, batch \in Batches : onLogs(h, batch)
    \/ \E h \in HandlerIds : Continue(h)
    \/ onERC721Received
    \/ addUpvotes

FairSpec ==
    /\ FairInit
    /\ [][FairNext]_vars
    /\ \A h \in HandlerIds : WF_vars(Continue(h))

\* ================================================================== claims
HasEntry(log, type, key) == \E i \in DOMAIN log : log[i].type = type /\ log[i].key = key

Last(log) == log[Len(log)]

\* no key is dispatched twice; a log in dispatch has its key in processedLogIds;
\* two handlers are never deciding on the same key
C1_Inv ==
    /\ \A k \in LogIds : dispatched[k] <= 1
    /\ \A h \in HandlerIds :
         InDispatch(h) =>
           /\ Has(processedLogIds, LogId(CurrentLog(h)))
           /\ dispatched[LogId(CurrentLog(h))] = 1
    /\ \A h, g \in HandlerIds :
         (h # g /\ MidDecision(h) /\ MidDecision(g))
           => LogId(CurrentLog(h)) # LogId(CurrentLog(g))

\* the decision step of such a log issues its one dispatch
C1_Step ==
    \A h \in HandlerIds :
      (running = H(h) /\ handlers[h].pc = "decide" /\ handlers[h].queuedNFTCount > 0)
        => /\ dispatched'[LogId(CurrentLog(h))] = 1
           /\ handlers'[h].pc = "getGasPrice"
           /\ handlers'[h].i = handlers[h].i

\* C1: every matched, unprocessed log read with inventory > 0 is dispatched
\* exactly once with its key already in processedLogIds, under every interleaving.
C1_ExactlyOneDispatch == [](C1_Inv) /\ [][C1_Step]_vars

\* a duplicate of the log handler h is dispatching was passed over by another
\* handler that is still at work
C1_Witness ==
    \E h, g \in HandlerIds :
      /\ h # g /\ InDispatch(h)
      /\ handlers[g].pc # "idle" /\ handlers[g].i > 1
      /\ LogId(handlers[g].logs[1]) = LogId(CurrentLog(h))
      /\ dispatched[LogId(CurrentLog(h))] = 1

\* C2: a delivered log whose key is already in processedLogIds when it is
\* examined causes no dispatch and no log entry, and leaves processedLogIds
\* and lastProcessedBlock unchanged.
C2_ProcessedIsSkipped ==
    [][\A h \in HandlerIds :
         (running = H(h) /\ handlers[h].pc = "loop"
            /\ Has(processedLogIds, LogId(CurrentLog(h))))
           => /\ UNCHANGED <<auditLog, dispenserLog, processedLogIds, lastProcessedBlock,
                             dispatched, pending, configCache>>
              /\ ~MidDecision(h)'
              /\ handlers'[h].i # handlers[h].i]_vars

\* log 500:0, restored from the state file, was passed over without a trace
C2_Witness ==
    \E h \in HandlerIds :
      /\ handlers[h].pc # "idle" /\ handlers[h].i > 1
      /\ LogId(handlers[h].logs[1]) = <<500, 0>>
      /\ runs = 1 /\ stateFile = OldFile
      /\ ~HasEntry(auditLog, "upvote_event_seen", <<500, 0>>)
      /\ dispatched[<<500, 0>>] = 0

\* a key was marked processed (its upvote_event_seen entry) by an earlier incarnation
MarkedEarlier(k) ==
    \E i, j \in DOMAIN auditLog :
      /\ i < j
      /\ auditLog[i].type = "upvote_event_seen" /\ auditLog[i].key = k
      /\ auditLog[j].type = "startup_success"

\* C3: once a key has been marked processed, no dispatch is issued for it again,
\* in this or any later incarnation started from the persisted state file.
C3_NeverReprocessed ==
    \A k \in LogIds :
      /\ dispatched[k] <= 1
      /\ MarkedEarlier(k) => dispatched[k] = 0

\* two characters equal up to case
SameLetter(c, d) ==
    \/ c = d
    \/ <<c, d>> \in {<<"a", "A">>, <<"A", "a">>, <<"b", "B">>, <<"B", "b">>,
                     <<"c", "C">>, <<"C", "c">>, <<"d", "D">>, <<"D", "d">>}

\* the log is for the tracked token and the required amount
Qualifies(log) ==
    /\ Len(log.token) = Len(NORMALIZED_TRACKED_TOKEN_ADDRESS)
    /\ \A i \in DOMAIN log.token :
         SameLetter(log.token[i], NORMALIZED_TRACKED_TOKEN_ADDRESS[i])
    /\ log.numUpvotes = 420

\* C4: a log whose token differs from the tracked token (compared without
\* regard to case) or whose numUpvotes is not 420 is never dispatched.
C4_FilteredNeverDispatched ==
    /\ \A l \in Logs :
         ~Qualifies(l) =>
           /\ dispatched[LogId(l)] = 0
           /\ LogId(l) \notin dispatchedBefore
           /\ ~Has(processedLogIds, LogId(l))
    /\ \A h \in HandlerIds : MidDecision(h) => Qualifies(CurrentLog(h))

\* a log with the wrong token or amount was delivered and passed over
C4_Witness ==
    \E h \in HandlerIds :
      /\ handlers[h].pc # "idle" /\ handlers[h].i > 1
      /\ ~Qualifies(handlers[h].logs[1])
      /\ dispatched[LogId(handlers[h].logs[1])] = 0

\* C5: for a matched log whose inventory read is 0, dispenser_depleted and
\* inventory_depleted entries naming the user and the source transaction are
\* written and nothing is dispatched.
C5_DepletedIsLogged ==
    [][\A h \in HandlerIds :
         (running = H(h) /\ handlers[h].pc = "decide" /\ handlers[h].queuedNFTCount = 0)
           => /\ Len(auditLog') = Len(auditLog) + 1
              /\ Last(auditLog').type = "dispenser_depleted"
              /\ Last(auditLog').key = LogId(CurrentLog(h))
              /\ Last(auditLog').user = CurrentLog(h).user
              /\ Len(dispenserLog') = Len(dispenserLog) + 1
              /\ Last(dispenserLog').type = "inventory_depleted"
              /\ Last(dispenserLog').key = LogId(CurrentLog(h))
              /\ Last(dispenserLog').user = CurrentLog(h).user
              /\ UNCHANGED <<dispatched, pending, nonce>>
              /\ ~InDispatch(h)']_vars

C5_Witness ==
    /\ Len(dispenserLog) > 0
    /\ Last(dispenserLog).type = "inventory_depleted"
    /\ HasEntry(auditLog, "dispenser_depleted", Last(dispenserLog).key)
    /\ dispatched[Last(dispenserLog).key] = 0

\* C6: at no time are two addUpvotes dispatches of this process in flight.
C6_OneDispatchInFlight ==
    \A h, g \in HandlerIds : (InDispatch(h) /\ InDispatch(g)) => h = g

\* C7: no step of a heartbeat tick executes between the marking of a log's key
\* and the logging of its outcome.
C7_NoTickDuringDecision ==
    [][(phase = "up" /\ phase' = "up" /\ ticks' # ticks)
         => \A h \in HandlerIds : ~MidDecision(h)]_vars

\* the keys a startup that loads file f has in processedLogIds
Reloaded(f) == LoadProcessedLogIds(f)

\* a step in which a tick writes net_state.json
TickWrites == phase = "up" /\ phase' = "up" /\ heartbeatCount' = heartbeatCount + 1

\* C8 (as stated): every key in processedLogIds when a tick writes the state
\* file is in processedLogIds after a fresh startup loads that file, whatever
\* the size of the set.
C8_RoundTripAnySize ==
    [][TickWrites => \A reloaded \in {Reloaded(stateFile')} :
                       \A i \in DOMAIN processedLogIds :
                         Has(reloaded, processedLogIds[i])]_vars

\* C8 (amended): the same for the 500 most recently inserted keys, which are
\* all keys when the set holds at most 500.
C8_RoundTripRecent ==
    [][TickWrites => \A reloaded \in {Reloaded(stateFile')} :
                       \A i \in DOMAIN processedLogIds :
                         i > Len(processedLogIds) - 500
                           => Has(reloaded, processedLogIds[i])]_vars

\* an incarnation started from a file a tick wrote, and holds a key it got from it
C8_Witness ==
    /\ runs = 2 /\ phase = "up"
    /\ Last(auditLog).type = "startup_success"
    /\ Has(stateFile.processed, <<501, 0>>)
    /\ Has(processedLogIds, <<501, 0>>)

\* C9: a state file written by tick has at most 500 keys, and when the set
\* holds more than 500 they are its 500 most recently inserted keys, in order.
C9_FileCapped ==
    /\ [](stateFile.exists => Len(stateFile.processed) <= 500)
    /\ [][TickWrites =>
            /\ stateFile'.exists
            /\ Len(stateFile'.processed) <= 500
            /\ Len(processedLogIds) > 500 =>
                 /\ Len(stateFile'.processed) = 500
                 /\ \A i \in 1..500 :
                      stateFile'.processed[i] =
                        processedLogIds[Len(processedLogIds) - 500 + i]]_vars

\* the file holds keys 2:0 .. 500:0 of the earlier file, then the key added in this run
C9_Witness ==
    /\ stateFile.exists /\ Len(stateFile.processed) = 500
    /\ stateFile.processed[1] = <<2, 0>>
    /\ stateFile.processed[499] = <<500, 0>>
    /\ stateFile.processed[500] = <<501, 0>>

\* C10: after SIGINT or SIGTERM the state file holds every key of
\* processedLogIds and lastProcessedBlock as they were at the signal.
C10_FlushedOnShutdown ==
    (phase = "exited" /\ exitCode = 0)
      => /\ \A i \in DOMAIN processedLogIds :
              stateFile.exists /\ Has(stateFile.processed, processedLogIds[i])
         /\ lastProcessedBlock # 0 =>
              stateFile.exists /\ BigInt(stateFile.lastProcessedBlock) = lastProcessedBlock

\* key k has an award_failed entry written by the current incarnation
FailedThisRun(k) ==
    \E i \in DOMAIN auditLog :
      /\ auditLog[i].type = "award_failed" /\ auditLog[i].key = k
      /\ \A j \in DOMAIN auditLog : j > i => auditLog[j].type # "startup_success"

\* a failing dispatch ends in an award_failed entry for its log and keeps the key
C11_FailStep ==
    \A h \in HandlerIds :
      (InDispatch(h) /\ phase' = "up" /\ ~InDispatch(h)'
         /\ Last(auditLog').type # "award_success")
        => /\ Len(auditLog') = Len(auditLog) + 2
           /\ Last(auditLog').type = "award_failed"
           /\ Last(auditLog').key = LogId(CurrentLog(h))
           /\ Has(processedLogIds', LogId(CurrentLog(h)))
           /\ dispatched' = dispatched

ReturnsHash(h) ==
    /\ handlers[h].pc = "writeContractSent" /\ handlers[h].hash # 0
    /\ Len(auditLog') = Len(auditLog) + 2
    /\ auditLog'[Len(auditLog) + 1].type = "dispenser_call"
    /\ auditLog'[Len(auditLog) + 1].tx = handlers[h].hash
    /\ Last(auditLog').type = "award_success"
    /\ Last(auditLog').tx = handlers[h].hash

\* the handler leaves addUpvotesToDispenser with null: the error was logged
ReturnsNull(h) ==
    /\ Len(auditLog') = Len(auditLog) + 2
    /\ auditLog'[Len(auditLog) + 1].type = "dispenser_call_error"
    /\ auditLog'[Len(auditLog) + 1].user = CurrentLog(h).user
    /\ Last(auditLog').type = "award_failed"
    /\ Last(auditLog').tx = 0

\* C12: addUpvotesToDispenser never raises: a failing step is caught, logged as
\* dispenser_call_error and null is returned; a hash is returned only when the
\* submission resolved. Either way the caller goes on with its batch.
C12_DispatchNeverRaises ==
    /\ [](\A h \in HandlerIds :
            handlers[h].hash # 0 => handlers[h].pc = "writeContractSent")
    /\ [][\A h \in HandlerIds :
            (InDispatch(h) /\ phase' = "up" /\ ~InDispatch(h)')
              => /\ ReturnsHash(h) \/ ReturnsNull(h)
                 /\ handlers'[h] = NextLog(handlers[h])]_vars

\* the simulation of the first log's dispatch failed; the handler is at its second log
C12_Witness ==
    \E h \in HandlerIds :
      /\ phase = "up" /\ handlers[h].pc = "loop" /\ handlers[h].i = 2
      /\ Len(auditLog) > 2
      /\ Last(auditLog).type = "award_failed"
      /\ Last(auditLog).key = LogId(handlers[h].logs[1])
      /\ auditLog[Len(auditLog) - 1].type = "dispenser_call_error"

\* the cached snapshot is younger than 60 s
Below60s == configCache.timestamp # 0 /\ now - configCache.timestamp < 60000

\* what the ledger holds, as getConfig renders it
LiveRequired == toString(upvotesRequired)

\* a step in which the remote read of a getConfig call returns
ReadReturns == Len(auditLog') = Len(auditLog) + 1 /\ Last(auditLog').type = "config_updated"

\* handler h calls getConfig: a snapshot younger than 60 s is returned at once,
\* with no remote read; otherwise the remote read is started
C13_HandlerCall(h) ==
    (running = H(h) /\ handlers[h].pc = "loop" /\ handlers'[h].pc \in {"decide", "getConfig"})
      => IF Below60s
         THEN /\ handlers'[h].pc = "decide"
              /\ handlers'[h].queuedNFTCount = configCache.data.queuedNFTCount
              /\ now - configCache.data.lastUpdated < 60000
              /\ UNCHANGED <<configCache, dispenserLog>>
         ELSE /\ handlers'[h].pc = "getConfig"
              /\ handlers'[h].now = now

\* the same for a tick
C13_TickCall(t) ==
    (ticks[t].pc = "idle" /\ ticks'[t].pc # "idle")
      => IF Below60s
         THEN /\ ticks'[t].pc = "getCurrentTip"
              /\ ticks'[t].upvotesRequired = configCache.data.upvotesRequired
              /\ ticks'[t].queuedNFTCount = configCache.data.queuedNFTCount
              /\ now - configCache.data.lastUpdated < 60000
              /\ UNCHANGED <<configCache, dispenserLog, auditLog>>
         ELSE /\ ticks'[t].pc = "getConfig"
              /\ ticks'[t].now = now

\* the remote read returns: the live values are returned and cached, stamped
\* with the time of the call
C13_Read ==
    ReadReturns =>
      /\ configCache'.data.upvotesRequired = LiveRequired
      /\ configCache'.data.queuedNFTCount = Len(queuedNFTs)
      /\ Len(configCache'.data.queuedNFTs) = Len(queuedNFTs)
      /\ configCache'.timestamp = configCache'.data.lastUpdated
      /\ \A h \in HandlerIds :
           handlers'[h] # handlers[h]
             => /\ handlers'[h].queuedNFTCount = Len(queuedNFTs)
                /\ configCache'.timestamp = handlers[h].now
      /\ \A t \in TickIds :
           ticks'[t] # ticks[t]
             => /\ ticks'[t].upvotesRequired = LiveRequired
                /\ ticks'[t].queuedNFTCount = Len(queuedNFTs)
                /\ configCache'.timestamp = ticks[t].now

\* C13: getConfig returns the cached snapshot without a remote read while its
\* age is below 60 s, and from 60 s on reads upvotesRequired and getQueuedNFTs
\* afresh, returns the new values and caches them.
C13_SnapshotIsFresh ==
    [][/\ \A h \in HandlerIds : C13_HandlerCall(h)
       /\ \A t \in TickIds : C13_TickCall(t)
       /\ C13_Read]_vars

\* a snapshot cached at 15 s was read again by a call made 60 s later
C13_Witness ==
    /\ now = 75000 /\ configCache.timestamp = 75000
    /\ \E i, j \in DOMAIN auditLog :
         i < j /\ auditLog[i].type = "config_updated" /\ auditLog[j].type = "config_updated"

\* a step in which the remote read of a getConfig call fails
ReadFails == Len(auditLog') = Len(auditLog) + 1 /\ Last(auditLog').type = "config_fetch_error"

\* the inventory count getConfig returns when its read fails
CountOnFailure ==
    IF configCache.timestamp # 0 THEN configCache.data.queuedNFTCount ELSE 0

\* C14: when the remote read fails getConfig does not throw: it logs
\* config_fetch_error and returns the cached snapshot if there is one, else a
\* default with no inventory, and a matched log handled with that default is
\* logged as depleted and not dispatched.
C14_ReadFailureFallsBack ==
    [][/\ \A h \in HandlerIds :
            (handlers[h].pc = "getConfig" /\ handlers'[h] # handlers[h] /\ phase' = "up"
               /\ ~ReadReturns)
              => /\ ReadFails
                 /\ handlers'[h].pc = "decide" /\ running' = H(h)
                 /\ handlers'[h].queuedNFTCount = CountOnFailure
                 /\ UNCHANGED <<configCache, dispatched, pending>>
       /\ \A t \in TickIds :
            (ticks[t].pc = "getConfig" /\ ticks'[t] # ticks[t] /\ phase' = "up"
               /\ ~ReadReturns)
              => /\ ReadFails
                 /\ ticks'[t].pc = "getCurrentTip"
                 /\ ticks'[t].queuedNFTCount = CountOnFailure
                 /\ UNCHANGED configCache
       /\ \A h \in HandlerIds :
            (running = H(h) /\ handlers[h].pc = "decide"
               /\ Last(auditLog).type = "config_fetch_error" /\ configCache.timestamp = 0)
              => /\ Last(auditLog').type = "dispenser_depleted"
                 /\ Last(auditLog').key = LogId(CurrentLog(h))
                 /\ dispatched' = dispatched]_vars

\* the first read failed while an NFT was queued: the log was logged as depleted
C14_Witness ==
    /\ Len(auditLog) > 2 /\ Len(queuedNFTs) > 0
    /\ configCache.timestamp = 0
    /\ Last(auditLog).type = "dispenser_depleted"
    /\ auditLog[Len(auditLog) - 1].type = "config_fetch_error"
    /\ dispatched[Last(auditLog).key] = 0

\* C15: a tick that got from getConfig an upvotesRequired different from the one
\* the previous tick got writes a threshold_changed entry.
C15_ThresholdChangeLogged ==
    [][\A t \in TickIds :
         (ticks[t].pc = "getCurrentTip" /\ heartbeatCount' = heartbeatCount + 1
            /\ observed # <<>> /\ ticks[t].upvotesRequired # observed)
           => /\ Len(dispenserLog') = Len(dispenserLog) + 1
              /\ Last(dispenserLog').type = "threshold_changed"]_vars

\* a step in which the dispenser executes the oldest pending addUpvotes
Executes == Len(pending) > 0 /\ pending' = Tail(pending)

\* C19: every dispatch is an addUpvotes(user, 420) of its own, and every one the
\* dispenser executes while an NFT is queued takes exactly one NFT off the queue
\* and gives it to that user.
C19_EachAwardConsumesOne ==
    [][/\ \A h \in HandlerIds :
            (handlers[h].pc = "writeContract" /\ handlers'[h].pc = "writeContractSent")
              => /\ Len(pending') = Len(pending) + 1
                 /\ Last(pending').user = CurrentLog(h).user
                 /\ Last(pending').amount = 420
       /\ (Executes /\ Len(queuedNFTs) > 0)
            => /\ Len(queuedNFTs') = Len(queuedNFTs) - 1
               /\ nftOwner'[queuedNFTs[Len(queuedNFTs)]] = Head(pending).user]_vars

\* the log has an entry of this type
HasType(log, type) == \E i \in DOMAIN log : log[i].type = type

\* C16: when the event subscription cannot be set up at start-up the process
\* exits with code 1 without having started the heartbeat interval, written the
\* state file or logged startup_success.
C16_NoSubscriptionIsFatal ==
    HasType(auditLog, "watch_setup_error")
      => /\ phase = "exited" /\ exitCode = 1
         /\ ~interval
         /\ fired = 0 /\ heartbeatCount = 0
         /\ stateFile \in StartupScenario.files
         /\ ~HasType(auditLog, "startup_success")

\* the subscription failed with a state file in place: the process is gone
C16_Witness ==
    /\ phase = "exited" /\ cause = "startup_error"
    /\ Last(auditLog).type = "startup_error"
    /\ stateFile = OldFile /\ processedLogIds = OldFile.processed

\* C17: whichever required parameters are missing, the process names each of
\* them in the configuration error and exits with code 1 in validateConfig,
\* before any other start-up step fails and before the subscription.
C17_MissingParamsReported ==
    (phase = "exited" /\ missing # {} /\ cause \notin {"SIGINT", "SIGTERM"})
      => /\ exitCode = 1
         /\ cause = "validateConfig"
         /\ {console[i] : i \in DOMAIN console} = missing
         /\ auditLog = <<>>

\* C18: a SIGINT or SIGTERM logs shutdown and exits 0; an uncaught exception or
\* unhandled rejection, whenever it is raised, logs fatal_error and exits 1.
C18_ExitCodes ==
    phase = "exited" =>
      /\ cause \in {"SIGINT", "SIGTERM"}
           => exitCode = 0 /\ HasType(auditLog, "shutdown")
      /\ cause \in {"uncaughtException", "unhandledRejection"}
           => exitCode = 1 /\ HasType(auditLog, "fatal_error")

\* C20: the daily files of the 7 most recent days that were logged to are all
\* present in ./logs, and the daily files of older days have been deleted.
C20_SevenDaysKept ==
    \A d \in 1..MaxDay :
        DailyFile(d) \in logDir <=> d \in MostRecent(LoggedDays, KeepFiles)

\* a step in which a transaction calling addUpvotes is mined
MinesAddUpvotes == Len(receipts') = Len(receipts) + 1 /\ Last(receipts').fn = "addUpvotes"

\* C21: addUpvotes is privileged to the owner, the bot's signing account: a call
\* from any other account reverts and leaves userUpvotes and queuedNFTs as they
\* were, while an executed call of the owner changes one of them.
C21_OnlyOwnerAddsUpvotes ==
    [][MinesAddUpvotes =>
         IF Last(receipts').sender = "bot"
         THEN Last(receipts').status = "success"
                => userUpvotes' # userUpvotes \/ queuedNFTs' # queuedNFTs
         ELSE /\ Last(receipts').status = "reverted"
              /\ userUpvotes' = userUpvotes
              /\ queuedNFTs' = queuedNFTs]_vars

\* a user's own call reverted while an NFT was queued, after a call of the owner
C21_Witness ==
    /\ Len(receipts) >= 2
    /\ receipts[1].sender = "bot" /\ receipts[1].status = "success"
    /\ Last(receipts).sender = "U1" /\ Last(receipts).status = "reverted"
    /\ Len(queuedNFTs) > 0
    /\ userUpvotes["U1"] < upvotesRequired

\* handler h moves to the step named pc
Reaches(h, pc) == handlers[h].pc # pc /\ handlers'[h].pc = pc

\* C22: inside addUpvotesToDispenser the gas price is read first, the call is
\* simulated next and submitted last: a transaction enters the pending pool only
\* from a handler whose simulation of that call succeeded, and a failing
\* gas-price read or simulation ends the dispatch with nothing submitted.
C22_SimulateBeforeSubmit ==
    [][/\ \A h \in HandlerIds :
            /\ Reaches(h, "getGasPrice") => handlers[h].pc = "decide"
            /\ Reaches(h, "simulateContract") => handlers[h].pc = "getGasPrice"
            /\ Reaches(h, "writeContract") => handlers[h].pc = "simulateContract"
            /\ Reaches(h, "writeContractSent") => handlers[h].pc = "writeContract"
            /\ (/\ handlers[h].pc \in {"getGasPrice", "simulateContract"}
                /\ handlers'[h] # handlers[h] /\ ReturnsNull(h))
                 => /\ nonce' = nonce /\ pending' = pending
                    /\ handlers'[h] = NextLog(handlers[h])
       /\ nonce' # nonce =>
            \E h \in HandlerIds :
              /\ handlers[h].pc = "writeContract" /\ Reaches(h, "writeContractSent")
              /\ nonce' = nonce + 1
              /\ pending' = Append(pending, [user |-> handlers[h].logs[handlers[h].i].user,
                                             amount |-> 420, hash |-> nonce'])]_vars

\* the dispatch for the first log of a batch failed with nothing submitted; the
\* dispatch for the second log was simulated and is the only transaction sent
C22_Witness ==
    \E h \in HandlerIds :
      /\ phase = "up" /\ handlers[h].pc = "writeContractSent" /\ handlers[h].i = 2
      /\ HasEntry(auditLog, "award_failed", LogId(handlers[h].logs[1]))
      /\ nonce = 1 /\ Len(pending) = 1
      /\ pending[1].user = handlers[h].logs[2].user

\* C23 as stated: for every baseline g > 0 the price used for the simulation
\* and the submission is g * 120 / 100 in integer arithmetic and is strictly
\* greater than g.
C23_AdjustedIsHigher ==
    gas.simulated # 0 =>
      /\ gas.simulated = (gas.gasPrice * 120) \div 100
      /\ gas.sent \in {0, gas.simulated}
      /\ gas.simulated > gas.gasPrice

\* C23 as amended: the price used for the simulation and the submission is
\* 1.2 g rounded down to a whole number of wei; it is never below g, and it is
\* strictly greater than g when g >= 5.
C23_AdjustedIsRoundedDown ==
    gas.simulated # 0 =>
      /\ 100 * gas.simulated <= 120 * gas.gasPrice
      /\ 120 * gas.gasPrice < 100 * (gas.simulated + 1)
      /\ gas.sent \in {0, gas.simulated}
      /\ gas.simulated >= gas.gasPrice
      /\ gas.gasPrice >= 5 => gas.simulated > gas.gasPrice

\* a baseline of 5 wei was read and the call submitted at 6 wei
C23_Witness == gas.gasPrice = 5 /\ gas.sent = 6

\* C24: handling a log that fails the filter (another token, or an amount other
\* than 420) changes nothing of the bot: the key is not added, lastProcessedBlock,
\* the config cache and the state file stay as they are, no remote read or
\* dispatch is started and neither log file gets an entry; the handler moves on.
C24_DroppedLeavesNoTrace ==
    [][\A h \in HandlerIds :
         (/\ running = H(h) /\ handlers[h].pc = "loop"
          /\ handlers'[h] # handlers[h]
          /\ ~Qualifies(handlers[h].logs[handlers[h].i]))
           => /\ UNCHANGED <<processedLogIds, lastProcessedBlock, configCache,
                             heartbeatCount>>
              /\ UNCHANGED <<auditLog, dispenserLog, stateFile>>
              /\ UNCHANGED <<pending, nonce, dispatched>>
              /\ ~Has(processedLogIds', LogId(handlers[h].logs[handlers[h].i]))
              /\ handlers'[h] = NextLog(handlers[h])
              /\ handlers'[h].pc \in {"loop", "idle"}]_vars

\* a log with 419 upvotes for the tracked token was passed over: the handler is
\* at the next log and the bot is as it was after start-up
C24_Witness ==
    \E h \in HandlerIds :
      /\ handlers[h].pc = "loop" /\ handlers[h].i = 2
      /\ handlers[h].logs[1].numUpvotes = 419
      /\ processedLogIds = <<>> /\ lastProcessedBlock = 0
      /\ configCache = EmptyCache
      /\ Len(auditLog) = 1 /\ dispenserLog = <<>>

\* C25: the depleted outcome of a matched log changes nothing of the bot but its
\* two log entries: the key stays marked, lastProcessedBlock is not advanced, also
\* when the log's block is higher, and nothing of a dispatch is touched. The
\* inventory read that precedes it changes the config cache and the logs only.
C25_DepletedMarksNothingMore ==
    [][\A h \in HandlerIds :
         /\ (/\ running = H(h) /\ handlers[h].pc = "decide"
             /\ handlers[h].queuedNFTCount = 0
             /\ handlers'[h] # handlers[h])
              => /\ UNCHANGED <<processedLogIds, lastProcessedBlock, configCache,
                                heartbeatCount, stateFile>>
                 /\ UNCHANGED <<pending, nonce, dispatched>>
                 /\ Has(processedLogIds, LogId(handlers[h].logs[handlers[h].i]))
                 /\ Len(auditLog') = Len(auditLog) + 1
                 /\ Last(auditLog').type = "dispenser_depleted"
                 /\ Len(dispenserLog') = Len(dispenserLog) + 1
                 /\ Last(dispenserLog').type = "inventory_depleted"
                 /\ handlers'[h] = NextLog(handlers[h])
         /\ (handlers[h].pc = "getConfig" /\ handlers'[h].pc = "decide")
              => /\ UNCHANGED <<processedLogIds, lastProcessedBlock, heartbeatCount,
                                stateFile>>
                 /\ UNCHANGED <<pending, nonce, dispatched>>]_vars

\* log 501:0 of block 12 ended as depleted in a process that loaded block 10
\* from its state file: lastProcessedBlock is still 10
C25_Witness ==
    /\ Last(auditLog).type = "dispenser_depleted"
    /\ Last(auditLog).key = <<501, 0>>
    /\ Has(processedLogIds, <<501, 0>>)
    /\ lastProcessedBlock = 10
    /\ nonce = 0 /\ dispatched[<<501, 0>>] = 0

\* the nft_awarded entries for key k in the dispenser log
Awarded(log, k) == {i \in DOMAIN log : log[i].type = "nft_awarded" /\ log[i].key = k}

\* C26: when the dispatch for a log returns a hash, exactly one nft_awarded entry
\* is written for it, with the log's user, its source transaction, the hash and
\* as inventoryBefore the count getConfig returned for that log (the amount, 420,
\* is on the award_success entry written with it); the cached snapshot is not
\* changed by the dispatch.
C26_AwardIsLoggedOnce ==
    [][\A h \in HandlerIds :
         LET log == handlers[h].logs[handlers[h].i] IN
         /\ (handlers[h].pc = "writeContractSent" /\ handlers'[h] # handlers[h]
               /\ phase' = "up" /\ ReturnsHash(h))
              => /\ Len(dispenserLog') = Len(dispenserLog) + 1
                 /\ Cardinality(Awarded(dispenserLog', LogId(log)))
                      = Cardinality(Awarded(dispenserLog, LogId(log))) + 1
                 /\ Last(dispenserLog') =
                      [type |-> "nft_awarded", key |-> <<log.transactionHash, log.logIndex>>,
                       user |-> log.user, val |-> handlers[h].queuedNFTCount,
                       tx |-> handlers[h].hash]
                 /\ Last(auditLog').val = 420 /\ Last(auditLog').user = log.user
                 /\ configCache' = configCache
         /\ (handlers[h].pc = "loop" /\ handlers'[h].pc = "decide")
              => handlers'[h].queuedNFTCount = configCache.data.queuedNFTCount
         /\ (handlers[h].pc = "getConfig" /\ handlers'[h].pc = "decide" /\ ReadReturns)
              => handlers'[h].queuedNFTCount = Len(queuedNFTs)
         /\ (InDispatch(h) /\ InDispatch(h)')
              => /\ handlers'[h].queuedNFTCount = handlers[h].queuedNFTCount
                 /\ configCache' = configCache \/ handlers'[h] = handlers[h]]_vars

\* the award was logged with inventoryBefore 1 after the dispenser had already
\* handed the NFT out: the queue is empty and the cached count is still 1
C26_Witness ==
    /\ dispenserLog # <<>>
    /\ Last(dispenserLog).type = "nft_awarded"
    /\ Last(dispenserLog).val = 1 /\ Last(dispenserLog).tx = 1
    /\ queuedNFTs = <<>> /\ deposited = 1
    /\ configCache.data.queuedNFTCount = 1

\* the snapshot a getConfig call hands back without a read, when the cache is fresh
HitConfig == configCache.data

\* C27: getConfig hands out a snapshot older than 60 s only when its own read
\* failed, and what it hands out then is marked as a stale fallback: it differs
\* from the snapshot a caller gets on a fresh hit.
C27_StaleIsMarked ==
    [][/\ \A h \in HandlerIds :
            (handlers[h].pc = "loop" /\ handlers'[h].pc = "decide") => Below60s
       /\ \A t \in TickIds :
            (ticks[t].pc = "idle" /\ ticks'[t].pc = "getCurrentTip") => Below60s
       /\ (ReadFails /\ configCache.timestamp # 0 /\ ~Below60s)
            => FallbackConfig # HitConfig]_vars

\* the times at which the remote reads now in flight were issued, per callback
ReadsInFlight ==
    {<<H(h), handlers[h].now>> : h \in {g \in HandlerIds : handlers[g].pc = "getConfig"}}
      \cup {<<T(t), ticks[t].now>> : t \in {u \in TickIds : ticks[u].pc = "getConfig"}}

\* C28: while remote reads succeed, at most one remote read of the dispenser
\* config is issued per 60 s window: two reads in flight were issued at least
\* 60 s apart, also when the tick and event handlers call getConfig together.
C28_OneReadPerWindow ==
    faults = 0 =>
      \A r, q \in ReadsInFlight :
          r # q => (r[2] - q[2] >= 60000 \/ q[2] - r[2] >= 60000)

\* tick t finishes in this step
TickEnds(t) == ticks[t].pc = "getCurrentTip" /\ ticks'[t].pc = "idle"

\* the ticks that have finished since start-up
TicksDone == fired - Cardinality({t \in TickIds : ticks[t].pc # "idle"})

\* the entries of a type in a log
CountType(log, type) == Cardinality({i \in DOMAIN log : log[i].type = type})

\* the step prints a [HEARTBEAT] line
PrintsHeartbeat == console' = Append(console, "HEARTBEAT")

\* the state file holds the processed keys and the last processed block
Persisted(file, set, block) ==
    /\ file.exists
    /\ file.processed = set
    /\ file.lastProcessedBlock # <<>> /\ BigInt(file.lastProcessedBlock) = block

TickErrors == {"config_fetch_error", "net_protocol_error", "tick_error"}

\* C30: a failure inside a tick (config read, tip read or state-file write) is
\* caught and logged; the process stays up with its timer, processedLogIds and
\* lastProcessedBlock are not changed by the tick, and the tick ends or goes on.
C30_TickSurvivesFailures ==
    [][/\ faults' > faults =>
            /\ Len(auditLog') >= Len(auditLog) + (faults' - faults)
            /\ SubSeq(auditLog', 1, Len(auditLog)) = auditLog
            /\ \A i \in (Len(auditLog) + 1)..Len(auditLog') : auditLog'[i].type \in TickErrors
            /\ \E t \in TickIds : ticks'[t].pc \in {"getCurrentTip", "idle"}
                                   /\ ticks'[t] # ticks[t]
       /\ ticks' # ticks =>
            /\ phase' = "up" /\ exitCode' = 0 /\ interval'
            /\ UNCHANGED <<processedLogIds, lastProcessedBlock>>]_vars

\* the first tick failed to write the state file (tick_error at heartbeat count 0)
\* and a later tick wrote it
C30_Witness ==
    /\ \E i \in DOMAIN auditLog : auditLog[i].type = "tick_error" /\ auditLog[i].val = 0
    /\ heartbeatCount = 1 /\ fired = 2 /\ TicksDone = 2
    /\ stateFile.exists /\ phase = "up"

\* C31: dispenser-actions.jsonl is append-only. No start-up, log write, daily
\* rotation or clean-up of ./logs removes the file, and every step leaves the
\* entries already written in place, in order, at the head of the file.
C31_DispenserLogAppendOnly ==
    [][/\ DISPENSER_LOG_FILE \in logDir'
       /\ Len(dispenserLog') >= Len(dispenserLog)
       /\ SubSeq(dispenserLog', 1, Len(dispenserLog)) = dispenserLog]_vars

\* the clean-up has deleted daily files around a dispenser log that holds entries
C31_Witness ==
    /\ Len(dispenserLog) = MaxActions
    /\ DISPENSER_LOG_FILE \in logDir
    /\ \E d \in LoggedDays : DailyFile(d) \notin logDir
    /\ currentLogDate = 0

\* the effect the dispenser's addUpvotes(user, numVotes) is to have
AddUpvotesEffect(user, numVotes) ==
    LET sum == userUpvotes[user] + numVotes
        last == queuedNFTs[Len(queuedNFTs)]
    IN  IF sum >= upvotesRequired /\ queuedNFTs # <<>>
        THEN /\ queuedNFTs' = SubSeq(queuedNFTs, 1, Len(queuedNFTs) - 1)
             /\ nftOwner'[last] = user
             /\ userUpvotes' = [userUpvotes EXCEPT ![user] = sum - upvotesRequired]
        ELSE /\ queuedNFTs' = queuedNFTs
             /\ nftOwner' = nftOwner
             /\ userUpvotes' = [userUpvotes EXCEPT ![user] = sum]

\* C32: a single addUpvotes(user, n) of the owner adds n to userUpvotes[user]
\* and awards at most one NFT: if the sum reaches upvotesRequired and the queue
\* is non-empty, exactly the last element of queuedNFTs is removed and
\* transferred to user and userUpvotes[user] is reduced by upvotesRequired;
\* otherwise the queue is unchanged and userUpvotes[user] is the sum.
C32_AddUpvotesAwardsLast ==
    [][(MinesAddUpvotes /\ Last(receipts').sender = owner)
         => \E user \in Users, numVotes \in VoteCounts :
                AddUpvotesEffect(user, numVotes)]_vars

\* C33: the dispenser's queue never holds the same token ID twice, whatever
\* sequence of queueNFT, direct safeTransferFrom deposits, addUpvotes and rescue
\* calls has been mined.
C33_NoDuplicateInQueue ==
    \A i, j \in DOMAIN queuedNFTs : queuedNFTs[i] = queuedNFTs[j] => i = j

\* C34: every token ID in queuedNFTs is an NFT the dispenser holds in the
\* collection it serves, after any sequence of queueing, addUpvotes, rescueNFT,
\* rescueAllNFTs and setNftContract calls, so the transfer of the popped token
\* in addUpvotes cannot revert.
C34_QueuedAreHeld ==
    \A i \in DOMAIN queuedNFTs : Holds(queuedNFTs[i])

\* handler h submits its addUpvotes transaction in this step
Submits(h) == Reaches(h, "writeContractSent") /\ Len(pending') = Len(pending) + 1

\* C35 as stated: whenever the bot submits addUpvotes for a matched event, the
\* dispenser's actual queue is non-empty at that moment, also for a later event
\* of the same 60-second cache window.
C35_DispatchOnlyWithInventory ==
    [][\A h \in HandlerIds : Submits(h) => Len(queuedNFTs) > 0]_vars

\* C35: whenever the bot submits addUpvotes for a matched event, the inventory
\* count of the snapshot getConfig returned for that event is not zero; the
\* snapshot may be up to 60 seconds old and the queue itself already empty.
C35_DispatchOnlySnapshotStocked ==
    [][\A h \in HandlerIds : Submits(h) => handlers[h].queuedNFTCount > 0]_vars

\* a second dispatch is submitted on a cached count of one while the only NFT
\* has gone to a user and the queue is empty
C35_Witness ==
    \E h \in HandlerIds :
        /\ handlers[h].pc = "writeContractSent"
        /\ handlers[h].hash = 2
        /\ handlers[h].queuedNFTCount = 1
        /\ queuedNFTs = <<>>
        /\ \E u \in Users : nftOwner[1] = u

\* the block number of the log with this key
BlockOf(key) == (CHOOSE log \in Logs : LogId(log) = key).blockNumber

\* this step logs the outcome of a dispatch attempt: award_success or award_failed
CompletesDispatch ==
    /\ Len(auditLog') > Len(auditLog)
    /\ Last(auditLog').type \in {"award_success", "award_failed"}

\* C36: during a run lastProcessedBlock never decreases and is the maximum of
\* the value loaded at start-up and the block numbers of the events whose
\* handling completed with a dispatch attempt, successful or failed: start-up
\* loads it from the state file, a completed attempt raises it to the event's
\* block if that is higher, and no other step (an event filtered out, skipped
\* as a duplicate or found depleted, a tick, a shutdown) changes it.
C36_LastProcessedBlockIsMax ==
    [][IF phase = "exited" /\ phase' = "up"
       THEN lastProcessedBlock' = LoadLastProcessedBlock(stateFile)
       ELSE IF CompletesDispatch
       THEN lastProcessedBlock' = Max(lastProcessedBlock, BlockOf(Last(auditLog').key))
       ELSE lastProcessedBlock' = lastProcessedBlock]_vars

\* the event of block 10 completed its dispatch attempt after the event of
\* block 12, and lastProcessedBlock is still 12
C36_Witness ==
    /\ lastProcessedBlock = 12
    /\ \E i, j \in DOMAIN auditLog :
          /\ i < j
          /\ auditLog[i].type \in {"award_success", "award_failed"}
          /\ auditLog[i].key = <<501, 0>>
          /\ auditLog[j].type \in {"award_success", "award_failed"}
          /\ auditLog[j].key = <<500, 0>>
          /\ \A k \in i..j : auditLog[k].type # "startup_success"

\* C37: the config cache is never replaced by an older read: under every
\* interleaving of getConfig calls from tick and from event handlers, the cache
\* timestamp never decreases while the process runs.
C37_CacheNeverGoesBack ==
    [][(phase = "up" /\ phase' = "up")
         => configCache'.timestamp >= configCache.timestamp]_vars

\* the outcome entries logged for the event with this key: nft_awarded and
\* award_failed in the dispenser log, dispenser_depleted in the daily log
Outcomes(key) ==
    Cardinality({i \in DOMAIN dispenserLog :
                    /\ dispenserLog[i].type \in {"nft_awarded", "award_failed"}
                    /\ dispenserLog[i].key = key})
      + Cardinality({i \in DOMAIN auditLog :
                        /\ auditLog[i].type = "dispenser_depleted"
                        /\ auditLog[i].key = key})

\* the running process has marked the key of this event as processed
Marked(key) == AlreadyProcessed(key) /\ HasEntry(auditLog, "upvote_event_seen", key)

\* C38: in a process that is not terminated and whose remote calls all return
\* or fail, every event whose key is marked processed eventually gets exactly
\* one outcome entry, nft_awarded, award_failed or dispenser_depleted, and never
\* has more than one.
C38_MarkedGetsOneOutcome ==
    /\ \A key \in LogIds : Marked(key) ~> (Outcomes(key) = 1)
    /\ [](\A key \in LogIds : Outcomes(key) <= 1)

\* two marked events have their outcome, one awarded and one not, and no
\* handler is at work
C38_Witness ==
    /\ \A h \in HandlerIds : handlers[h].pc = "idle"
    /\ \E k1, k2 \in LogIds :
          /\ k1 # k2
          /\ Marked(k1) /\ Marked(k2)
          /\ Outcomes(k1) = 1 /\ Outcomes(k2) = 1
          /\ HasEntry(dispenserLog, "nft_awarded", k1)
          /\ ~HasEntry(dispenserLog, "nft_awarded", k2)

====
